---- MODULE Spec2Model ----
(***************************************************************************)
(* Void_Contingency: the ship kinematic update model.                      *)
(*                                                                         *)
(* A Ship owns an ordered sequence of components; EngineComponent and      *)
(* MovementComponent read and write the velocity and rotation of the ship  *)
(* their back-reference ship_ points to.                                   *)
(*                                                                         *)
(* float32 values are modelled as fixed-point numbers: the integer n       *)
(* stands for n / Unit.  As in the C++ code every arithmetic operation     *)
(* rounds its result to the nearest representable value (here: to the      *)
(* nearest multiple of 1 / Unit, ties away from zero), so a product, a     *)
(* quotient or a square root is in general not exact.  NaN and infinities  *)
(* are outside the model: every value stays within a finite range.         *)
(***************************************************************************)
EXTENDS Integers, Sequences, FiniteSets, TLC

VARIABLES ships, comps, calls, hist, core

vars == <<ships, comps, calls, hist, core>>

----------------------------------------------------------------------------
(* Bounds of the model *)

\* one fixed-point unit is 1 / Unit
Unit == 10 * 10

\* longest call history explored from the constructed state
MaxSteps == 2

\* largest velocity / position coordinate (in whole units) a state may hold
MaxCoord == 200

\* the two Ship objects: a ship and another ship
Ships == {1, 2}
\* the three component objects: 1 and 3 are EngineComponents, 2 is a
\* MovementComponent
Comps == {1, 2, 3}

\* the null Ship*
NoShip == 0

----------------------------------------------------------------------------
(* float arithmetic, rounded per operation *)

Abs(a) == IF a < 0 THEN -a ELSE a

Sgn(a) == IF a < 0 THEN -1 ELSE IF a > 0 THEN 1 ELSE 0

Max(a, b) == IF a < b THEN b ELSE a

Min(a, b) == IF b < a THEN b ELSE a

\* a / b for b > 0, rounded to the nearest integer
RoundDiv(a, b) ==
    LET n == Abs(a)
        q == n \div b
        r == n % b
    IN  Sgn(a) * (IF 2 * r >= b THEN q + 1 ELSE q)

\* float operator*
FMul(a, b) == RoundDiv(a * b, Unit)

\* float operator/ (b # 0)
FDiv(a, b) == Sgn(b) * RoundDiv(a * Unit, Abs(b))

RECURSIVE SqrtBetween(_, _, _)
\* the largest r in lo..hi with r * r <= n
SqrtBetween(n, lo, hi) ==
    IF lo >= hi THEN lo
    ELSE LET mid == (lo + hi + 1) \div 2
         IN  IF mid * mid <= n THEN SqrtBetween(n, mid, hi)
                               ELSE SqrtBetween(n, lo, mid - 1)

\* std::sqrt of a >= 0, rounded to the nearest representable value
FSqrt(a) ==
    LET n == a * Unit
        r == SqrtBetween(n, 0, 46340)
    IN  IF n - r * r > r THEN r + 1 ELSE r

\* std::clamp(v, lo, hi)
Clamp(v, lo, hi) == IF v < lo THEN lo ELSE IF hi < v THEN hi ELSE v

----------------------------------------------------------------------------
(* Vector2f *)

Vec(x, y) == [x |-> x, y |-> y]

Zero == Vec(0, 0)

VAdd(a, b) == Vec(a.x + b.x, a.y + b.y)

VScale(v, s) == Vec(FMul(v.x, s), FMul(v.y, s))

VDiv(v, s) == Vec(FDiv(v.x, s), FDiv(v.y, s))

LengthSquared(v) == FMul(v.x, v.x) + FMul(v.y, v.y)

Length(v) == FSqrt(LengthSquared(v))

Normalized(v) ==
    LET len == Length(v)
    IN  IF len > 0 THEN Vec(FDiv(v.x, len), FDiv(v.y, len)) ELSE v

----------------------------------------------------------------------------
(* Transform *)

\* std::cos / std::sin of rotation * (pi / 180), for the rotations of the model
CosDeg(r) ==
    CASE r = 0 -> Unit
      [] r = 90 * Unit -> 0
      [] r = 180 * Unit -> -Unit
      [] r = 37 * Unit -> (8 * Unit) \div 10
      [] r = 270 * Unit -> 0

SinDeg(r) ==
    CASE r = 0 -> 0
      [] r = 90 * Unit -> Unit
      [] r = 180 * Unit -> 0
      [] r = 37 * Unit -> (6 * Unit) \div 10
      [] r = 270 * Unit -> -Unit

\* the rotations (degrees) the movement components are given
Rotations == {0, 90 * Unit, 180 * Unit, 37 * Unit, 270 * Unit}

getForward(transform) == Vec(CosDeg(transform.rotation), SinDeg(transform.rotation))

NewTransform == [position |-> Zero, rotation |-> 0, scale |-> Vec(Unit, Unit)]

----------------------------------------------------------------------------
(* Ship and components: construction *)

NewShip ==
    [health |-> 100 * Unit, maxHealth |-> 100 * Unit, transform |-> NewTransform,
     velocity |-> Zero, components |-> <<>>]

NewEngineComponent ==
    [type |-> "Engine", ship |-> NoShip, thrust |-> 0, maxThrust |-> 100 * Unit,
     efficiency |-> (8 * Unit) \div 10]

NewMovementComponent ==
    [type |-> "Movement", ship |-> NoShip, mode |-> "Thruster", thrust |-> Zero,
     rotation |-> 0, angularVelocity |-> 0, maxSpeed |-> 100 * Unit,
     acceleration |-> 50 * Unit, deceleration |-> 30 * Unit,
     angularAcceleration |-> 180 * Unit, angularDeceleration |-> 90 * Unit]

\* the component object c as constructed
NewComponent(c) == IF c = 2 THEN NewMovementComponent ELSE NewEngineComponent

\* A world is the part of the heap an operation works on, with the trace of
\* the internal calls the operation made; ok is FALSE once a value left the
\* finite range of the model.
World(s, c) == [ships |-> s, comps |-> c, calls |-> <<>>, ok |-> TRUE]

InRange(v) == Abs(v.x) <= MaxCoord * Unit /\ Abs(v.y) <= MaxCoord * Unit

getVelocity(w, s) == w.ships[s].velocity

\* setVelocity that caps the speed at 100
setVelocity_capped(w, s, v) ==
    LET u == IF Length(v) > 100 * Unit THEN VScale(Normalized(v), 100 * Unit) ELSE v
    IN  [w EXCEPT !.ships[s].velocity = u, !.ok = w.ok /\ InRange(u)]

setVelocity(w, s, v) ==
    [w EXCEPT !.ships[s].velocity = v, !.ok = w.ok /\ InRange(v)]

\* Ship::setRotation, called by MovementComponent::update
setRotation(w, s, r) == [w EXCEPT !.ships[s].transform.rotation = r]

Called(w, entry) == [w EXCEPT !.calls = Append(w.calls, entry)]

----------------------------------------------------------------------------
(* Ship *)

addComponent(w, s, c) ==
    [w EXCEPT !.ships[s].components = Append(w.ships[s].components, c)]

\* the null component pointer
NoComponent == 0

\* the component classes a getComponent<T> can name
ComponentClasses == {"Engine", "Movement"}

\* dynamic_cast<T*>(component.get()) is non-null
DynamicCast(w, c, T) == w.comps[c].type = T

RECURSIVE FirstOf(_, _, _)
\* the loop of getComponent over the rest of components_
FirstOf(w, components, T) ==
    IF components = <<>> THEN NoComponent
    ELSE IF DynamicCast(w, Head(components), T) THEN Head(components)
         ELSE FirstOf(w, Tail(components), T)

\* getComponent that keeps scanning and returns the last match
getComponent_last(w, s, T) ==
    LET n == Len(w.ships[s].components)
    IN  FirstOf(w, [i \in 1..n |-> w.ships[s].components[n + 1 - i]], T)

getComponent(w, s, T) == FirstOf(w, w.ships[s].components, T)

\* damage without the floor at zero
damage_noFloor(w, s, amount) ==
    [w EXCEPT !.ships[s].health = w.ships[s].health - amount]

damage(w, s, amount) ==
    [w EXCEPT !.ships[s].health = Max(0, w.ships[s].health - amount)]

heal(w, s, amount) ==
    [w EXCEPT !.ships[s].health = Min(w.ships[s].maxHealth, w.ships[s].health + amount)]

----------------------------------------------------------------------------
(* EngineComponent *)

\* EngineComponent::update without the null check of ship_: the null pointer
\* is dereferenced, and the write lands in the first ship
EngineComponent_update_noNullCheck(w, c, deltaTime) ==
    LET s == IF w.comps[c].ship = NoShip THEN 1 ELSE w.comps[c].ship
        force == FMul(w.comps[c].thrust, w.comps[c].efficiency)
        direction == getForward(w.ships[s].transform)
        velocity == VAdd(getVelocity(w, s),
                         VScale(VScale(direction, force), deltaTime))
    IN  setVelocity(w, s, velocity)

\* EngineComponent::update that leaves the efficiency out of the force
EngineComponent_update_noEfficiency(w, c, deltaTime) ==
    LET s == w.comps[c].ship
    IN  IF s = NoShip THEN w
        ELSE LET force == w.comps[c].thrust
                 direction == getForward(w.ships[s].transform)
                 velocity == VAdd(getVelocity(w, s),
                                  VScale(VScale(direction, force), deltaTime))
             IN  setVelocity(w, s, velocity)

EngineComponent_update(w, c, deltaTime) ==
    LET s == w.comps[c].ship
    IN  IF s = NoShip THEN w
        ELSE LET force == FMul(w.comps[c].thrust, w.comps[c].efficiency)
                 direction == getForward(w.ships[s].transform)
                 velocity == VAdd(getVelocity(w, s),
                                  VScale(VScale(direction, force), deltaTime))
             IN  setVelocity(w, s, velocity)

\* setThrust that only keeps the thrust from going negative
EngineComponent_setThrust_noCap(w, c, thrust) ==
    [w EXCEPT !.comps[c].thrust = Max(thrust, 0)]

EngineComponent_setThrust(w, c, thrust) ==
    [w EXCEPT !.comps[c].thrust = Clamp(thrust, 0, w.comps[c].maxThrust)]

----------------------------------------------------------------------------
(* MovementComponent; ship_ is non-null in the private helpers *)

\* applyAcceleration that pushes against the thrust direction
applyAcceleration_against(w, c, deltaTime) ==
    LET m == w.comps[c]
        s == m.ship
    IN  IF LengthSquared(m.thrust) > 0
        THEN LET direction == Normalized(m.thrust)
                 velocity == VAdd(getVelocity(w, s),
                                  VScale(VScale(direction, -m.acceleration), deltaTime))
             IN  setVelocity(w, s, velocity)
        ELSE w

\* applyAcceleration that takes the x axis as the direction of a zero thrust
applyAcceleration_coast(w, c, deltaTime) ==
    LET m == w.comps[c]
        s == m.ship
        direction == IF LengthSquared(m.thrust) > 0 THEN Normalized(m.thrust)
                                                    ELSE Vec(Unit, 0)
        velocity == VAdd(getVelocity(w, s),
                         VScale(VScale(direction, m.acceleration), deltaTime))
    IN  setVelocity(w, s, velocity)

applyAcceleration(w, c, deltaTime) ==
    LET m == w.comps[c]
        s == m.ship
    IN  IF LengthSquared(m.thrust) > 0
        THEN LET direction == Normalized(m.thrust)
                 velocity == VAdd(getVelocity(w, s),
                                  VScale(VScale(direction, m.acceleration), deltaTime))
             IN  setVelocity(w, s, velocity)
        ELSE w

\* applyDeceleration without the floor of the new speed at zero
applyDeceleration_noFloor(w, c, deltaTime) ==
    LET m == w.comps[c]
        s == m.ship
        velocity == getVelocity(w, s)
        speed == Length(velocity)
    IN  IF speed > 0
        THEN LET direction == VDiv(velocity, speed)
                 newSpeed == speed - FMul(m.deceleration, deltaTime)
             IN  setVelocity(w, s, VScale(direction, newSpeed))
        ELSE w

applyDeceleration(w, c, deltaTime) ==
    LET m == w.comps[c]
        s == m.ship
        velocity == getVelocity(w, s)
        speed == Length(velocity)
    IN  IF speed > 0
        THEN LET direction == VDiv(velocity, speed)
                 newSpeed == Max(0, speed - FMul(m.deceleration, deltaTime))
             IN  setVelocity(w, s, VScale(direction, newSpeed))
        ELSE w

clampVelocity(w, c) ==
    LET m == w.comps[c]
        s == m.ship
        velocity == getVelocity(w, s)
        speed == Length(velocity)
    IN  IF speed > m.maxSpeed
        THEN setVelocity(w, s, VScale(Normalized(velocity), m.maxSpeed))
        ELSE w

\* one private helper call, recorded with the ship velocity before and after
Step(w, c, name, w2) ==
    Called(w2, [call |-> name, comp |-> c,
                before |-> getVelocity(w, w.comps[c].ship),
                after |-> getVelocity(w2, w.comps[c].ship)])

StepAcceleration(w, c, dt) ==
    IF w.ok THEN Step(w, c, "applyAcceleration", applyAcceleration(w, c, dt)) ELSE w

StepDeceleration(w, c, dt) ==
    IF w.ok THEN Step(w, c, "applyDeceleration", applyDeceleration(w, c, dt)) ELSE w

StepClamp(w, c) ==
    IF w.ok THEN Step(w, c, "clampVelocity", clampVelocity(w, c)) ELSE w

\* updateThrusterMode that decelerates before it accelerates
updateThrusterMode_decelerationFirst(w, c, deltaTime) ==
    StepClamp(StepAcceleration(StepDeceleration(w, c, deltaTime), c, deltaTime), c)

updateThrusterMode(w, c, deltaTime) ==
    StepClamp(StepDeceleration(StepAcceleration(w, c, deltaTime), c, deltaTime), c)

\* updateImpulseMode that lets the thrust accelerate the ship
updateImpulseMode_withThrust(w, c, deltaTime) ==
    StepClamp(StepDeceleration(StepAcceleration(w, c, deltaTime), c, deltaTime), c)

updateImpulseMode(w, c, deltaTime) ==
    StepClamp(StepDeceleration(w, c, deltaTime), c)

\* updateHybridMode that accelerates with the whole deltaTime
updateHybridMode_fullDt(w, c, deltaTime) ==
    StepClamp(StepDeceleration(StepAcceleration(w, c, deltaTime), c, deltaTime), c)

updateHybridMode(w, c, deltaTime) ==
    StepClamp(StepDeceleration(StepAcceleration(w, c, FMul(deltaTime, Unit \div 2)),
                               c, deltaTime), c)

\* const float maxAngularSpeed = 360.0f
maxAngularSpeed == 360 * Unit

\* applyAngularDeceleration that lets the angular velocity pass through zero
applyAngularDeceleration_overshoot(w, c, deltaTime) ==
    LET m == w.comps[c]
    IN  IF Abs(m.angularVelocity) > 0
        THEN LET sign == IF m.angularVelocity > 0 THEN 1 ELSE -1
                 newAngularVelocity ==
                     Abs(m.angularVelocity) - FMul(m.angularDeceleration, deltaTime)
             IN  [w EXCEPT !.comps[c].angularVelocity = sign * newAngularVelocity]
        ELSE w

applyAngularAcceleration(w, c, deltaTime) ==
    LET m == w.comps[c]
    IN  IF Abs(m.angularVelocity) > 0
        THEN LET sign == IF m.angularVelocity > 0 THEN 1 ELSE -1
             IN  [w EXCEPT !.comps[c].angularVelocity =
                     m.angularVelocity + FMul(sign * m.angularAcceleration, deltaTime)]
        ELSE w

applyAngularDeceleration(w, c, deltaTime) ==
    LET m == w.comps[c]
    IN  IF Abs(m.angularVelocity) > 0
        THEN LET sign == IF m.angularVelocity > 0 THEN 1 ELSE -1
                 newAngularVelocity ==
                     Abs(m.angularVelocity) - FMul(m.angularDeceleration, deltaTime)
             IN  [w EXCEPT !.comps[c].angularVelocity =
                     IF newAngularVelocity > 0 THEN sign * newAngularVelocity ELSE 0]
        ELSE w

clampAngularVelocity(w, c) ==
    [w EXCEPT !.comps[c].angularVelocity =
        Clamp(w.comps[c].angularVelocity, -maxAngularSpeed, maxAngularSpeed)]

\* MovementComponent::update that also runs the angular helpers
MovementComponent_update_withAngular(w, c, deltaTime) ==
    LET m == w.comps[c]
    IN  IF m.ship = NoShip THEN w
        ELSE LET w2 == CASE m.mode = "Thruster" -> updateThrusterMode(w, c, deltaTime)
                         [] m.mode = "Impulse" -> updateImpulseMode(w, c, deltaTime)
                         [] m.mode = "Hybrid" -> updateHybridMode(w, c, deltaTime)
                 w3 == clampAngularVelocity(applyAngularAcceleration(w2, c, deltaTime), c)
             IN  setRotation(w3, m.ship, m.rotation)

\* MovementComponent::update that integrates as in Thruster mode whatever
\* the mode is
MovementComponent_update_thrusterOnly(w, c, deltaTime) ==
    LET m == w.comps[c]
    IN  IF m.ship = NoShip THEN w
        ELSE setRotation(updateThrusterMode(w, c, deltaTime), m.ship, m.rotation)

\* MovementComponent::update that does not write the rotation to the ship
MovementComponent_update_noRotation(w, c, deltaTime) ==
    LET m == w.comps[c]
    IN  IF m.ship = NoShip THEN w
        ELSE CASE m.mode = "Thruster" -> updateThrusterMode(w, c, deltaTime)
               [] m.mode = "Impulse" -> updateImpulseMode(w, c, deltaTime)
               [] m.mode = "Hybrid" -> updateHybridMode(w, c, deltaTime)

MovementComponent_update(w, c, deltaTime) ==
    LET m == w.comps[c]
    IN  IF m.ship = NoShip THEN w
        ELSE LET w2 == CASE m.mode = "Thruster" -> updateThrusterMode(w, c, deltaTime)
                         [] m.mode = "Impulse" -> updateImpulseMode(w, c, deltaTime)
                         [] m.mode = "Hybrid" -> updateHybridMode(w, c, deltaTime)
             IN  setRotation(w2, m.ship, m.rotation)

\* the virtual call component->update(deltaTime)
Component_update(w, c, deltaTime) ==
    LET w1 == Called(w, [call |-> "update", comp |-> c, dt |-> deltaTime])
    IN  IF ~w.ok THEN w
        ELSE IF w.comps[c].type = "Engine"
             THEN EngineComponent_update(w1, c, deltaTime)
             ELSE MovementComponent_update(w1, c, deltaTime)

RECURSIVE UpdateAll(_, _, _)
\* for (auto& component : components_) component->update(deltaTime)
UpdateAll(w, components, deltaTime) ==
    IF components = <<>> THEN w
    ELSE UpdateAll(Component_update(w, Head(components), deltaTime),
                   Tail(components), deltaTime)

\* Ship::update that integrates the position after the components ran
Ship_update_integrateLast(w, s, deltaTime) ==
    LET w1 == UpdateAll(Called(w, [call |-> "integrate", ship |-> s, dt |-> deltaTime]),
                        w.ships[s].components, deltaTime)
        position == VAdd(w1.ships[s].transform.position,
                         VScale(w1.ships[s].velocity, deltaTime))
    IN  [w1 EXCEPT !.ships[s].transform.position = position,
                   !.ok = w1.ok /\ InRange(position)]

\* Ship::update that walks the components from the back
Ship_update_backwards(w, s, deltaTime) ==
    LET position == VAdd(w.ships[s].transform.position,
                         VScale(w.ships[s].velocity, deltaTime))
        w1 == [w EXCEPT !.ships[s].transform.position = position,
                        !.ok = w.ok /\ InRange(position)]
        w2 == Called(w1, [call |-> "integrate", ship |-> s, dt |-> deltaTime])
        n == Len(w.ships[s].components)
    IN  UpdateAll(w2, [i \in 1..n |-> w.ships[s].components[n + 1 - i]], deltaTime)

\* Ship::update that updates the engines of the ship before its other
\* components, whatever the insertion order
Ship_update_enginesFirst(w, s, deltaTime) ==
    LET position == VAdd(w.ships[s].transform.position,
                         VScale(w.ships[s].velocity, deltaTime))
        w1 == [w EXCEPT !.ships[s].transform.position = position,
                        !.ok = w.ok /\ InRange(position)]
        w2 == Called(w1, [call |-> "integrate", ship |-> s, dt |-> deltaTime])
        engines == SelectSeq(w.ships[s].components,
                             LAMBDA c : w.comps[c].type = "Engine")
        others == SelectSeq(w.ships[s].components,
                            LAMBDA c : w.comps[c].type # "Engine")
    IN  UpdateAll(w2, engines \o others, deltaTime)

Ship_update(w, s, deltaTime) ==
    LET position == VAdd(w.ships[s].transform.position,
                         VScale(w.ships[s].velocity, deltaTime))
        w1 == [w EXCEPT !.ships[s].transform.position = position,
                        !.ok = w.ok /\ InRange(position)]
        w2 == Called(w1, [call |-> "integrate", ship |-> s, dt |-> deltaTime])
    IN  UpdateAll(w2, w.ships[s].components, deltaTime)

----------------------------------------------------------------------------
(* Core services: Logger, Config, InputSystem, Renderer, EventManager and
   ResourceManager are singletons; their fields are the record core.  An
   operation takes and returns a record e whose field k is that record and
   whose field calls lists the calls the operation made, in order. *)

EventTypes == {"GameStartEvent", "GameEndEvent", "SystemFailureEvent"}

Paths == {"ship.png", "laser.wav"}

ResourceTypes == {"Texture", "Sound"}

ConfigKeys == {"fullscreen", "volume"}

NoText == "<none>"

\* a file holds a value text for some of the keys
File(text) == [exists |-> TRUE, text |-> text]

NoFile == [exists |-> FALSE, text |-> [key \in ConfigKeys |-> NoText]]

NoValue == [type |-> "none", text |-> ""]

NoResource == [id |-> 0, type |-> "none"]

Keys == {"SDLK_ESCAPE", "SDLK_SPACE"}

KeyActions == {"PRESS", "RELEASE", "REPEAT"}

\* a key without an entry in key_states_
NoState == [known |-> FALSE, pressed |-> FALSE]

KeyState(pressed) == [known |-> TRUE, pressed |-> pressed]

\* what the platform lets succeed: opening the log file, SDL_Init,
\* SDL_CreateWindow, SDL_CreateRenderer, opening config.ini for writing
Working == [logFile |-> TRUE, sdl |-> TRUE, window |-> TRUE, renderer |-> TRUE,
            writable |-> TRUE]

Environments ==
    {Working, [Working EXCEPT !.logFile = FALSE], [Working EXCEPT !.sdl = FALSE],
     [Working EXCEPT !.window = FALSE], [Working EXCEPT !.renderer = FALSE],
     [Working EXCEPT !.writable = FALSE]}

\* config.ini: absent, empty, or with values
ConfigFiles ==
    {NoFile,
     File([key \in ConfigKeys |-> NoText]),
     File([key \in ConfigKeys |-> IF key = "fullscreen" THEN "true" ELSE "0.5"]),
     File([key \in ConfigKeys |-> IF key = "fullscreen" THEN "abc" ELSE "7"])}

\* the singletons before any call, next to the file config.ini
NewCore(file) ==
    [logger |-> [is_initialized |-> FALSE, file |-> "", open |-> FALSE, written |-> <<>>],
     values |-> [key \in ConfigKeys |-> NoValue],
     configFile |-> file,
     input |-> [sdl |-> FALSE, window |-> FALSE],
     key_states |-> [key \in Keys |-> NoState],
     key_callbacks |-> [key \in Keys |-> <<>>],
     is_running |-> FALSE,
     in_run |-> FALSE,
     renderer |-> FALSE,
     callbacks |-> [type \in EventTypes |-> <<>>],
     resources |-> [path \in Paths |-> NoResource],
     made |-> 0]

Services(k) == [k |-> k, calls |-> <<>>]

Did(e, entry) == [e EXCEPT !.calls = Append(e.calls, entry)]

(* Logger *)

\* Logger::initialize that opens the file also when it is initialized
Logger_initialize_reopen(e, log_file, env) ==
    Did([e EXCEPT !.k.logger.file = log_file, !.k.logger.open = env.logFile,
                  !.k.logger.is_initialized = TRUE],
        [call |-> "Logger::initialize"])

Logger_initialize(e, log_file, env) ==
    Did(IF ~e.k.logger.is_initialized
        THEN [e EXCEPT !.k.logger.file = log_file, !.k.logger.open = env.logFile,
                       !.k.logger.is_initialized = TRUE]
        ELSE e,
        [call |-> "Logger::initialize"])

Logger_log(e, level, message) ==
    Did(IF ~e.k.logger.is_initialized THEN e
        ELSE IF e.k.logger.open
        THEN [e EXCEPT !.k.logger.written =
                 Append(e.k.logger.written,
                        [file |-> e.k.logger.file, level |-> level, message |-> message])]
        ELSE e,
        [call |-> "Logger::log", message |-> message])

Logger_shutdown(e) ==
    Did(IF e.k.logger.is_initialized
        THEN [e EXCEPT !.k.logger.open = FALSE, !.k.logger.is_initialized = FALSE]
        ELSE e,
        [call |-> "Logger::shutdown"])

(* Config *)

\* the typed value load_from_file makes of a value text
ParseValue(text) ==
    IF text \in {"true", "false"} THEN [type |-> "bool", text |-> text]
    ELSE IF text = "0.5" THEN [type |-> "float", text |-> text]
    ELSE IF text \in {"0", "1", "7"} THEN [type |-> "int", text |-> text]
    ELSE [type |-> "string", text |-> text]

\* the text operator<< writes for a value: a bool is written as 1 or 0
PrintValue(v) ==
    IF v.type = "bool" THEN (IF v.text = "true" THEN "1" ELSE "0") ELSE v.text

Config_load_from_file(e) ==
    Did(IF ~e.k.configFile.exists THEN e
        ELSE [e EXCEPT !.k.values = [key \in ConfigKeys |->
                 IF e.k.configFile.text[key] # NoText
                 THEN ParseValue(e.k.configFile.text[key])
                 ELSE e.k.values[key]]],
        [call |-> "Config::load_from_file"])

Config_save_to_file(e, env) ==
    Did(IF ~env.writable THEN e
        ELSE [e EXCEPT !.k.configFile = File([key \in ConfigKeys |->
                 IF e.k.values[key] # NoValue THEN PrintValue(e.k.values[key])
                 ELSE NoText])],
        [call |-> "Config::save_to_file"])

(* InputSystem and Renderer *)

InputSystem_initialize(e, env) ==
    Did(IF ~env.sdl THEN e
        ELSE [e EXCEPT !.k.input = [sdl |-> TRUE, window |-> env.window]],
        [call |-> "InputSystem::initialize"])

InputSystem_shutdown(e) ==
    Did([e EXCEPT !.k.input = [sdl |-> FALSE, window |-> FALSE]],
        [call |-> "InputSystem::shutdown"])

Renderer_initialize(e, window, env) ==
    Did([e EXCEPT !.k.renderer = window /\ env.renderer],
        [call |-> "Renderer::initialize"])

Renderer_shutdown(e) ==
    Did([e EXCEPT !.k.renderer = FALSE], [call |-> "Renderer::shutdown"])

(* Keys: SDL hands update() the events that are pending, in order.  A key
   callback is known by its name; the callback of the game clears
   is_running_, every other callback only shows in the calls *)

GameCallback == "is_running_ = false"

KeyCallbacks == {GameCallback, "a", "b"}

SdlEvents ==
    {[type |-> "SDL_QUIT", key |-> ""]}
       \cup [type : {"SDL_KEYDOWN", "SDL_KEYUP"}, key : Keys]

register_key_callback(e, key, action, callback) ==
    Did([e EXCEPT !.k.key_callbacks[key] =
            Append(e.k.key_callbacks[key], [action |-> action, callback |-> callback])],
        [call |-> "InputSystem::register_key_callback"])

\* callback.second()
RunKeyCallback(e, key, registered) ==
    LET e1 == Did(e, [call |-> "callback", name |-> registered.callback, key |-> key,
                      action |-> registered.action, state |-> e.k.key_states[key]])
    IN  IF registered.callback = GameCallback THEN [e1 EXCEPT !.k.is_running = FALSE]
        ELSE e1

\* the callbacks registered for the key with the action, in order
RECURSIVE RunKeyCallbacks(_, _, _, _)
RunKeyCallbacks(e, key, registered, action) ==
    IF registered = <<>> THEN e
    ELSE RunKeyCallbacks(IF Head(registered).action = action
                         THEN RunKeyCallback(e, key, Head(registered)) ELSE e,
                         key, Tail(registered), action)

\* one event of the loop of update(), which runs the callbacks before it
\* writes the key state
HandleEvent_callbacksFirst(e, event) ==
    CASE event.type = "SDL_KEYDOWN" ->
            [RunKeyCallbacks(e, event.key, e.k.key_callbacks[event.key], "PRESS")
                EXCEPT !.k.key_states[event.key] = KeyState(TRUE)]
      [] event.type = "SDL_KEYUP" ->
            [RunKeyCallbacks(e, event.key, e.k.key_callbacks[event.key], "RELEASE")
                EXCEPT !.k.key_states[event.key] = KeyState(FALSE)]
      [] OTHER -> e

\* one event of the loop of update() that does not write the key state on
\* a key-up
HandleEvent_sticky(e, event) ==
    CASE event.type = "SDL_KEYDOWN" ->
            RunKeyCallbacks([e EXCEPT !.k.key_states[event.key] = KeyState(TRUE)],
                            event.key, e.k.key_callbacks[event.key], "PRESS")
      [] event.type = "SDL_KEYUP" ->
            RunKeyCallbacks(e, event.key, e.k.key_callbacks[event.key], "RELEASE")
      [] OTHER -> e

\* one event of the loop of update()
HandleEvent(e, event) ==
    CASE event.type = "SDL_KEYDOWN" ->
            RunKeyCallbacks([e EXCEPT !.k.key_states[event.key] = KeyState(TRUE)],
                            event.key, e.k.key_callbacks[event.key], "PRESS")
      [] event.type = "SDL_KEYUP" ->
            RunKeyCallbacks([e EXCEPT !.k.key_states[event.key] = KeyState(FALSE)],
                            event.key, e.k.key_callbacks[event.key], "RELEASE")
      [] OTHER -> e

\* events: what SDL_PollEvent returns until the queue is empty
RECURSIVE InputSystem_update(_, _)
InputSystem_update(e, events) ==
    IF events = <<>> THEN e
    ELSE InputSystem_update(HandleEvent(e, Head(events)), Tail(events))

is_key_pressed(k, key) == k.key_states[key].known /\ k.key_states[key].pressed

(* EventManager: a callback is known by its name; the two callbacks of the
   engine log their name, every other callback only shows in the calls *)

EngineCallbacks == {"Game started", "Game ended"}

Callbacks == EngineCallbacks \cup {"a", "b"}

subscribe(e, type, callback) ==
    Did([e EXCEPT !.k.callbacks[type] = Append(e.k.callbacks[type], callback)],
        [call |-> "EventManager::subscribe", type |-> type])

Invoke(e, callback, type) ==
    LET e1 == Did(e, [call |-> "callback", name |-> callback, type |-> type])
    IN  IF callback \in EngineCallbacks THEN Logger_log(e1, "INFO", callback) ELSE e1

RECURSIVE InvokeAll(_, _, _)
InvokeAll(e, callbacks, type) ==
    IF callbacks = <<>> THEN e
    ELSE InvokeAll(Invoke(e, Head(callbacks), type), Tail(callbacks), type)

\* emit that calls the callbacks of every event type
emit_broadcast(e, type) ==
    LET types == CHOOSE q \in [1..Cardinality(EventTypes) -> EventTypes] :
                     \A t \in EventTypes : \E i \in DOMAIN q : q[i] = t
        RunType(i, f) == InvokeAll(f, f.k.callbacks[types[i]], types[i])
    IN  RunType(3, RunType(2, RunType(1, e)))

emit(e, type) == InvokeAll(e, e.k.callbacks[type], type)

EventManager_clear(e) ==
    Did([e EXCEPT !.k.callbacks = [type \in EventTypes |-> <<>>]],
        [call |-> "EventManager::clear"])

(* ResourceManager *)

\* dynamic_pointer_cast<ResourceType>: the instance, or none when it is of
\* another class
PointerCast(resource, type) == IF resource.type = type THEN resource ELSE NoResource

\* load_resource that does not look into the cache
load_resource_uncached(e, type, path, loads) ==
    LET resource == [id |-> e.k.made + 1, type |-> type]
        e1 == Did([e EXCEPT !.k.made = e.k.made + 1],
                  [call |-> "Resource::load", path |-> path])
    IN  IF loads
        THEN Did([e1 EXCEPT !.k.resources[path] = resource],
                 [call |-> "return", result |-> resource])
        ELSE Did(e1, [call |-> "return", result |-> NoResource])

\* loads: whether ResourceType::load(path) succeeds
load_resource(e, type, path, loads) ==
    IF e.k.resources[path] # NoResource
    THEN Did(e, [call |-> "return", result |-> PointerCast(e.k.resources[path], type)])
    ELSE LET resource == [id |-> e.k.made + 1, type |-> type]
             e1 == Did([e EXCEPT !.k.made = e.k.made + 1],
                       [call |-> "Resource::load", path |-> path])
         IN  IF loads
             THEN Did([e1 EXCEPT !.k.resources[path] = resource],
                      [call |-> "return", result |-> resource])
             ELSE Did(e1, [call |-> "return", result |-> NoResource])

unload_all(e) ==
    Did([e EXCEPT !.k.resources = [path \in Paths |-> NoResource]],
        [call |-> "ResourceManager::unload_all"])

(* Game: is_running is the field of the one Game object, in_run tells
   whether run() was entered and has not returned *)

Game_initialize(e) ==
    LET e1 == Logger_log(e, "INFO", "Initializing game...")
    IN  register_key_callback([e1 EXCEPT !.k.is_running = TRUE],
                              "SDLK_ESCAPE", "PRESS", GameCallback)

Game_shutdown(e) ==
    [Logger_log(e, "INFO", "Shutting down game...") EXCEPT !.k.is_running = FALSE]

Game_process_input(e, events) ==
    InputSystem_update(Did(e, [call |-> "Game::process_input"]), events)

Game_update(e) ==
    LET e1 == Did(e, [call |-> "Game::update"])
    IN  IF is_key_pressed(e1.k, "SDLK_ESCAPE") THEN [e1 EXCEPT !.k.is_running = FALSE]
        ELSE e1

Game_render(e) ==
    Did(Did(Did(Did(e, [call |-> "Game::render"]),
                [call |-> "Renderer::set_draw_color"]),
            [call |-> "Renderer::clear"]),
        [call |-> "Renderer::present"])

\* run() up to the test of the loop
Game_run(e) ==
    [Logger_log(e, "INFO", "Starting game loop") EXCEPT !.k.in_run = TRUE]

\* the body of the loop with the rendering before the input
Game_iteration_renderFirst(e, events) ==
    Game_update(Game_process_input(Game_render(e), events))

\* the body of the loop of run()
Game_iteration(e, events) ==
    Game_render(Game_update(Game_process_input(e, events)))

\* run() returns
Game_return(e) == [e EXCEPT !.k.in_run = FALSE]

(* Engine *)

Engine_initialize(e, env) ==
    LET e1 == Logger_initialize(e, "void_contingency.log", env)
        e2 == Logger_log(e1, "INFO", "Initializing engine...")
        e3 == Config_load_from_file(e2)
        e4 == InputSystem_initialize(e3, env)
        e5 == Renderer_initialize(e4, e4.k.input.window, env)
        e6 == subscribe(e5, "GameStartEvent", "Game started")
    IN  subscribe(e6, "GameEndEvent", "Game ended")

Engine_shutdown(e, env) ==
    LET e1 == Logger_log(e, "INFO", "Shutting down engine...")
        e2 == Config_save_to_file(e1, env)
        e3 == Renderer_shutdown(e2)
        e4 == InputSystem_shutdown(e3)
        e5 == unload_all(e4)
        e6 == EventManager_clear(e5)
    IN  Logger_log(e6, "INFO", "Engine shutdown complete")

----------------------------------------------------------------------------
(* The values the callers pass *)

Amounts == {-20 * Unit, 20 * Unit, 30 * Unit, 100 * Unit}

DeltaTimes == {-Unit, 0, Unit \div 2, Unit}

Velocities == {Zero, Vec(30 * Unit, 40 * Unit), Vec(150 * Unit, 30 * Unit),
               Vec(-120 * Unit, 0), Vec(0, -Unit \div 2)}

EngineThrusts == {-10 * Unit, 50 * Unit, 150 * Unit}

Thrusts == {Zero, Vec(Unit, 0), Vec(-3 * Unit, 4 * Unit), Vec(0, 300 * Unit)}

MovementModes == {"Thruster", "Impulse", "Hybrid"}

MaxSpeeds == {-10 * Unit, 0, 20 * Unit, 100 * Unit}

Accelerations == {-50 * Unit, 0, 50 * Unit}

Decelerations == {-30 * Unit, 0, 30 * Unit, 200 * Unit}

AngularRates == {0, 90 * Unit, -400 * Unit}

Engines == {c \in Comps : NewComponent(c).type = "Engine"}

Movements == {c \in Comps : NewComponent(c).type = "Movement"}

----------------------------------------------------------------------------
(* State *)

\* after construction of the ships and of the components
Init ==
    /\ ships = [s \in Ships |-> NewShip]
    /\ comps = [c \in Comps |-> NewComponent(c)]
    /\ calls = <<>>
    /\ hist = <<>>
    /\ core = NewCore(NoFile)

Cur == World(ships, comps)

\* the operation returned the world w: the new heap, the internal calls it
\* made, and one more entry of the call history
Return(w, entry) ==
    /\ w.ok
    /\ ships' = w.ships
    /\ comps' = w.comps
    /\ calls' = w.calls
    /\ hist' = Append(hist, entry)
    /\ UNCHANGED core

\* fewer than n calls were made so far
Within(n) == Len(hist) < n

Call(op, s, c, num, vec) == [op |-> op, ship |-> s, comp |-> c, num |-> num, vec |-> vec]

Owned == UNION {{ships[s].components[i] : i \in DOMAIN ships[s].components} : s \in Ships}

----------------------------------------------------------------------------
(* Operations *)

DamageCall(s, amount) ==
    Return(damage(Cur, s, amount), Call("damage", s, 0, amount, Zero))

HealCall(s, amount) ==
    Return(heal(Cur, s, amount), Call("heal", s, 0, amount, Zero))

SetVelocityCall(s, v) ==
    Return(setVelocity(Cur, s, v), Call("setVelocity", s, 0, 0, v))

\* the std::unique_ptr is moved into the ship: a component is added once
AddComponentCall(s, c) ==
    /\ c \notin Owned
    /\ Return(addComponent(Cur, s, c), Call("addComponent", s, c, 0, Zero))

SetShipCall(c, s) ==
    Return([Cur EXCEPT !.comps[c].ship = s], Call("setShip", s, c, 0, Zero))

ShipUpdateCall(s, deltaTime) ==
    Return(Ship_update(Cur, s, deltaTime), Call("Ship::update", s, 0, deltaTime, Zero))

\* component->update(deltaTime) called directly, as the unit tests do
ComponentUpdateCall(c, deltaTime) ==
    Return(Component_update(Cur, c, deltaTime), Call("update", 0, c, deltaTime, Zero))

EngineSetThrustCall(c, thrust) ==
    /\ c \in Engines
    /\ Return(EngineComponent_setThrust(Cur, c, thrust),
              Call("Engine::setThrust", 0, c, thrust, Zero))

SetMovementModeCall(c, mode) ==
    /\ c \in Movements
    /\ Return([Cur EXCEPT !.comps[c].mode = mode],
              Call("setMovementMode", 0, c, 0, Zero))

MovementSetThrustCall(c, thrust) ==
    /\ c \in Movements
    /\ Return([Cur EXCEPT !.comps[c].thrust = thrust],
              Call("Movement::setThrust", 0, c, 0, thrust))

SetRotationCall(c, rotation) ==
    /\ c \in Movements
    /\ Return([Cur EXCEPT !.comps[c].rotation = rotation],
              Call("setRotation", 0, c, rotation, Zero))

SetAngularVelocityCall(c, angularVelocity) ==
    /\ c \in Movements
    /\ Return([Cur EXCEPT !.comps[c].angularVelocity = angularVelocity],
              Call("setAngularVelocity", 0, c, angularVelocity, Zero))

SetMaxSpeedCall(c, speed) ==
    /\ c \in Movements
    /\ Return([Cur EXCEPT !.comps[c].maxSpeed = speed],
              Call("setMaxSpeed", 0, c, speed, Zero))

SetAccelerationCall(c, acceleration) ==
    /\ c \in Movements
    /\ Return([Cur EXCEPT !.comps[c].acceleration = acceleration],
              Call("setAcceleration", 0, c, acceleration, Zero))

SetDecelerationCall(c, deceleration) ==
    /\ c \in Movements
    /\ Return([Cur EXCEPT !.comps[c].deceleration = deceleration],
              Call("setDeceleration", 0, c, deceleration, Zero))

SetAngularAccelerationCall(c, acceleration) ==
    /\ c \in Movements
    /\ Return([Cur EXCEPT !.comps[c].angularAcceleration = acceleration],
              Call("setAngularAcceleration", 0, c, acceleration, Zero))

SetAngularDecelerationCall(c, deceleration) ==
    /\ c \in Movements
    /\ Return([Cur EXCEPT !.comps[c].angularDeceleration = deceleration],
              Call("setAngularDeceleration", 0, c, deceleration, Zero))

----------------------------------------------------------------------------
(* Specifications *)

\* every operation, from the constructed state
Next ==
    \/ \E s \in Ships, a \in Amounts : Within(MaxSteps) /\ DamageCall(s, a)
    \/ \E s \in Ships, a \in Amounts : Within(MaxSteps) /\ HealCall(s, a)
    \/ \E s \in Ships, v \in Velocities : Within(MaxSteps) /\ SetVelocityCall(s, v)
    \/ \E s \in Ships, c \in Comps : Within(MaxSteps) /\ AddComponentCall(s, c)
    \/ \E c \in Comps, s \in Ships \cup {NoShip} : Within(MaxSteps) /\ SetShipCall(c, s)
    \/ \E s \in Ships, dt \in DeltaTimes : Within(MaxSteps) /\ ShipUpdateCall(s, dt)
    \/ \E c \in Comps, dt \in DeltaTimes : Within(MaxSteps) /\ ComponentUpdateCall(c, dt)
    \/ \E c \in Comps, t \in EngineThrusts : Within(MaxSteps) /\ EngineSetThrustCall(c, t)
    \/ \E c \in Comps, m \in MovementModes : Within(MaxSteps) /\ SetMovementModeCall(c, m)
    \/ \E c \in Comps, t \in Thrusts : Within(MaxSteps) /\ MovementSetThrustCall(c, t)
    \/ \E c \in Comps, r \in Rotations : Within(MaxSteps) /\ SetRotationCall(c, r)
    \/ \E c \in Comps, a \in AngularRates : Within(MaxSteps) /\ SetAngularVelocityCall(c, a)
    \/ \E c \in Comps, x \in MaxSpeeds : Within(MaxSteps) /\ SetMaxSpeedCall(c, x)
    \/ \E c \in Comps, a \in Accelerations : Within(MaxSteps) /\ SetAccelerationCall(c, a)
    \/ \E c \in Comps, d \in Decelerations : Within(MaxSteps) /\ SetDecelerationCall(c, d)
    \/ \E c \in Comps, a \in AngularRates : Within(MaxSteps) /\ SetAngularAccelerationCall(c, a)
    \/ \E c \in Comps, d \in AngularRates : Within(MaxSteps) /\ SetAngularDecelerationCall(c, d)

Spec == Init /\ [][Next]_vars

\* longest sequence of damage / heal calls explored
MaxHealthOps == 4

NextHealth ==
    \/ \E s \in Ships, a \in Amounts : Within(MaxHealthOps) /\ DamageCall(s, a)
    \/ \E s \in Ships, a \in Amounts : Within(MaxHealthOps) /\ HealCall(s, a)

SpecHealth == Init /\ [][NextHealth]_vars

----------------------------------------------------------------------------
(* Ships in flight: states reached from the constructed state by addComponent,
   setShip, EngineComponent::setThrust, MovementComponent::setRotation,
   Ship::setVelocity and a MovementComponent::update with deltaTime 0 *)

RECURSIVE AddAll(_, _, _)
AddAll(w, s, components) ==
    IF components = <<>> THEN w
    ELSE AddAll(addComponent(w, s, Head(components)), s, Tail(components))

\* longest call history explored from a state in flight
MaxFlightSteps == 2

\* first / second: the components added to ship 1 / ship 2, in this order;
\* attach[c]: the ship component c is attached to; velocity and rotation:
\* those of ship 1, the rotation being the one of its movement components
Flights ==
    { [first |-> <<1, 2>>, second |-> <<>>, attach |-> <<1, 1, NoShip>>,
       velocity |-> Zero, rotation |-> 0],
      [first |-> <<2, 1>>, second |-> <<3>>, attach |-> <<1, 1, 2>>,
       velocity |-> Vec(30 * Unit, 40 * Unit), rotation |-> 0],
      [first |-> <<1, 2>>, second |-> <<>>, attach |-> <<1, 1, NoShip>>,
       velocity |-> Vec(150 * Unit, 30 * Unit), rotation |-> 37 * Unit],
      [first |-> <<1>>, second |-> <<2>>, attach |-> <<2, 1, NoShip>>,
       velocity |-> Vec(-120 * Unit, 0), rotation |-> 90 * Unit],
      [first |-> <<1, 2>>, second |-> <<>>, attach |-> <<NoShip, NoShip, NoShip>>,
       velocity |-> Vec(30 * Unit, 40 * Unit), rotation |-> 0],
      [first |-> <<2, 1, 3>>, second |-> <<>>, attach |-> <<1, 1, 1>>,
       velocity |-> Vec(0, -Unit \div 2), rotation |-> 180 * Unit] }

AttachedTo(f, c) == IF c \in DOMAIN f.attach THEN f.attach[c] ELSE NoShip

InFlight(f) ==
    LET w0 == World([s \in Ships |-> NewShip], [c \in Comps |-> NewComponent(c)])
        w1 == AddAll(AddAll(w0, 1, f.first), 2, f.second)
        steers == \E c \in Movements : AttachedTo(f, c) = 1
        w2 == [w1 EXCEPT !.comps = [c \in Comps |->
                  LET a == [w1.comps[c] EXCEPT !.ship = AttachedTo(f, c)]
                  IN  IF c \in Engines
                      THEN [a EXCEPT !.thrust = Clamp(50 * Unit, 0, a.maxThrust)]
                      ELSE [a EXCEPT !.rotation = IF steers THEN f.rotation ELSE 0]]]
        w3 == setVelocity(w2, 1, f.velocity)
    IN  IF steers THEN setRotation(w3, 1, f.rotation) ELSE w3

InitFlight ==
    \E f \in Flights :
        /\ ships = InFlight(f).ships
        /\ comps = InFlight(f).comps
        /\ calls = <<>>
        /\ hist = <<>>
        /\ core = NewCore(NoFile)

NextFlight ==
    \/ \E s \in Ships, v \in Velocities : Within(MaxFlightSteps) /\ SetVelocityCall(s, v)
    \/ \E s \in Ships, c \in Comps : Within(MaxFlightSteps) /\ AddComponentCall(s, c)
    \/ \E s \in Ships, dt \in DeltaTimes : Within(MaxFlightSteps) /\ ShipUpdateCall(s, dt)
    \/ \E c \in Comps, dt \in DeltaTimes : Within(MaxFlightSteps) /\ ComponentUpdateCall(c, dt)
    \/ \E c \in Comps, t \in EngineThrusts : Within(MaxFlightSteps) /\ EngineSetThrustCall(c, t)
    \/ \E c \in Comps, m \in MovementModes : Within(MaxFlightSteps) /\ SetMovementModeCall(c, m)
    \/ \E c \in Comps, t \in Thrusts : Within(MaxFlightSteps) /\ MovementSetThrustCall(c, t)
    \/ \E c \in Comps, r \in Rotations : Within(MaxFlightSteps) /\ SetRotationCall(c, r)
    \/ \E c \in Comps, x \in MaxSpeeds : Within(MaxFlightSteps) /\ SetMaxSpeedCall(c, x)
    \/ \E c \in Comps, a \in Accelerations : Within(MaxFlightSteps) /\ SetAccelerationCall(c, a)
    \/ \E c \in Comps, d \in Decelerations : Within(MaxFlightSteps) /\ SetDecelerationCall(c, d)

SpecFlight == InitFlight /\ [][NextFlight]_vars

----------------------------------------------------------------------------
(* Movement modes: an attached MovementComponent is configured by its
   setters and updated directly *)

\* longest call history explored from a state in flight
MaxModeSteps == 3

\* the flights in which a movement component is attached to a ship
ModeFlights == {f \in Flights : \E c \in Movements : AttachedTo(f, c) # NoShip}

InitModes ==
    \E f \in ModeFlights :
        /\ ships = InFlight(f).ships
        /\ comps = InFlight(f).comps
        /\ calls = <<>>
        /\ hist = <<>>
        /\ core = NewCore(NoFile)

NextModes ==
    \/ \E c \in Movements, m \in MovementModes : Within(MaxModeSteps) /\ SetMovementModeCall(c, m)
    \/ \E c \in Movements, t \in Thrusts : Within(MaxModeSteps) /\ MovementSetThrustCall(c, t)
    \/ \E c \in Movements, dt \in DeltaTimes : Within(MaxModeSteps) /\ ComponentUpdateCall(c, dt)
    \/ \E c \in Movements, a \in Accelerations : Within(MaxModeSteps) /\ SetAccelerationCall(c, a)
    \/ \E c \in Movements, d \in Decelerations : Within(MaxModeSteps) /\ SetDecelerationCall(c, d)

SpecModes == InitModes /\ [][NextModes]_vars

----------------------------------------------------------------------------
(* The unit tests of the components: a new ship and new components, on which
   the setters and update are called directly *)

\* longest call history explored from the constructed state
MaxTestSteps == 3

NextTest ==
    \/ \E c \in Comps, m \in MovementModes : Within(MaxTestSteps) /\ SetMovementModeCall(c, m)
    \/ \E c \in Comps, t \in Thrusts : Within(MaxTestSteps) /\ MovementSetThrustCall(c, t)
    \/ \E c \in Comps, x \in MaxSpeeds : Within(MaxTestSteps) /\ SetMaxSpeedCall(c, x)
    \/ \E c \in Comps, t \in EngineThrusts : Within(MaxTestSteps) /\ EngineSetThrustCall(c, t)
    \/ \E c \in Comps, dt \in DeltaTimes : Within(MaxTestSteps) /\ ComponentUpdateCall(c, dt)

SpecTest == Init /\ [][NextTest]_vars

----------------------------------------------------------------------------
(* Component management: addComponent and getComponent<T> *)

\* ship.getComponent<T>(): const, the result is recorded
GetComponentCall(s, T) ==
    LET r == getComponent(Cur, s, T)
    IN  Return(Called(Cur, [call |-> "getComponent", ship |-> s, class |-> T,
                            result |-> r]),
               Call("getComponent", s, r, 0, Zero))

\* longest sequence of addComponent / getComponent calls explored
MaxComponentOps == 4

NextComponents ==
    \/ \E s \in Ships, c \in Comps : Within(MaxComponentOps) /\ AddComponentCall(s, c)
    \/ \E s \in Ships, T \in ComponentClasses :
          Within(MaxComponentOps) /\ GetComponentCall(s, T)

SpecComponents == Init /\ [][NextComponents]_vars

----------------------------------------------------------------------------
(* Ships driven by engines only: each ship owns one engine, attached to it;
   no movement component is attached *)

\* longest call history explored from the ships at rest
MaxCruiseSteps == 3

CruiseFlight ==
    [first |-> <<1>>, second |-> <<3>>, attach |-> <<1, NoShip, 2>>,
     velocity |-> Zero, rotation |-> 0]

InitCruise ==
    /\ ships = InFlight(CruiseFlight).ships
    /\ comps = InFlight(CruiseFlight).comps
    /\ calls = <<>>
    /\ hist = <<>>
    /\ core = NewCore(NoFile)

NextCruise ==
    \/ \E s \in Ships, v \in Velocities : Within(MaxCruiseSteps) /\ SetVelocityCall(s, v)
    \/ \E s \in Ships, dt \in DeltaTimes : Within(MaxCruiseSteps) /\ ShipUpdateCall(s, dt)
    \/ \E c \in Comps, t \in EngineThrusts : Within(MaxCruiseSteps) /\ EngineSetThrustCall(c, t)

SpecCruise == InitCruise /\ [][NextCruise]_vars

----------------------------------------------------------------------------
(* An engine and a movement component on one ship: ship 1 owns exactly the
   two, in either insertion order, both attached to it *)

\* longest call history explored from a state in flight
MaxOrderSteps == 2

OrderFlights ==
    {f \in Flights : Len(f.first) = 2 /\ \A i \in 1..2 : AttachedTo(f, f.first[i]) = 1}

InitOrder ==
    \E f \in OrderFlights :
        /\ ships = InFlight(f).ships
        /\ comps = InFlight(f).comps
        /\ calls = <<>>
        /\ hist = <<>>
        /\ core = NewCore(NoFile)

NextOrder ==
    \/ \E s \in Ships, v \in Velocities : Within(MaxOrderSteps) /\ SetVelocityCall(s, v)
    \/ \E s \in Ships, dt \in DeltaTimes : Within(MaxOrderSteps) /\ ShipUpdateCall(s, dt)
    \/ \E c \in Comps, t \in EngineThrusts : Within(MaxOrderSteps) /\ EngineSetThrustCall(c, t)
    \/ \E c \in Comps, m \in MovementModes : Within(MaxOrderSteps) /\ SetMovementModeCall(c, m)
    \/ \E c \in Comps, t \in Thrusts : Within(MaxOrderSteps) /\ MovementSetThrustCall(c, t)
    \/ \E c \in Comps, d \in Decelerations : Within(MaxOrderSteps) /\ SetDecelerationCall(c, d)

SpecOrder == InitOrder /\ [][NextOrder]_vars

----------------------------------------------------------------------------
(* Steering: the rotation and the angular velocity of an attached
   MovementComponent are set, and the component is updated in any mode *)

\* longest call history explored from a state in flight
MaxSteerSteps == 3

NextSteer ==
    \/ \E c \in Movements, m \in MovementModes : Within(MaxSteerSteps) /\ SetMovementModeCall(c, m)
    \/ \E c \in Movements, r \in Rotations : Within(MaxSteerSteps) /\ SetRotationCall(c, r)
    \/ \E c \in Movements, a \in AngularRates : Within(MaxSteerSteps) /\ SetAngularVelocityCall(c, a)
    \/ \E c \in Movements, dt \in DeltaTimes : Within(MaxSteerSteps) /\ ComponentUpdateCall(c, dt)

SpecSteer == InitModes /\ [][NextSteer]_vars

----------------------------------------------------------------------------
(* The angular helpers of MovementComponent: private and called by no mode,
   they are applied here to a component whose angular velocity and angular
   rates the setters chose *)

ApplyAngularAccelerationCall(c, deltaTime) ==
    /\ c \in Movements
    /\ Return(applyAngularAcceleration(Cur, c, deltaTime),
              Call("applyAngularAcceleration", 0, c, deltaTime, Zero))

ApplyAngularDecelerationCall(c, deltaTime) ==
    /\ c \in Movements
    /\ Return(applyAngularDeceleration(Cur, c, deltaTime),
              Call("applyAngularDeceleration", 0, c, deltaTime, Zero))

ClampAngularVelocityCall(c) ==
    /\ c \in Movements
    /\ Return(clampAngularVelocity(Cur, c), Call("clampAngularVelocity", 0, c, 0, Zero))

\* longest call history explored from the constructed state
MaxAngularSteps == 3

NextAngular ==
    \/ \E c \in Comps, a \in AngularRates : Within(MaxAngularSteps) /\ SetAngularVelocityCall(c, a)
    \/ \E c \in Comps, a \in AngularRates : Within(MaxAngularSteps) /\ SetAngularAccelerationCall(c, a)
    \/ \E c \in Comps, d \in AngularRates : Within(MaxAngularSteps) /\ SetAngularDecelerationCall(c, d)
    \/ \E c \in Comps, dt \in DeltaTimes : Within(MaxAngularSteps) /\ ApplyAngularAccelerationCall(c, dt)
    \/ \E c \in Comps, dt \in DeltaTimes : Within(MaxAngularSteps) /\ ApplyAngularDecelerationCall(c, dt)
    \/ \E c \in Comps : Within(MaxAngularSteps) /\ ClampAngularVelocityCall(c)

SpecAngular == Init /\ [][NextAngular]_vars

----------------------------------------------------------------------------
(* Coasting: a ship with an attached MovementComponent in Impulse mode and a
   positive deceleration is ticked again and again with dt > 0 *)

\* the number of ticks explored
MaxDecayTicks == 8

\* the flight f after setMovementMode(Impulse) and setDeceleration(d)
Coasting(f, d) ==
    [InFlight(f) EXCEPT !.comps = [c \in Comps |->
        IF c \in Movements
        THEN [InFlight(f).comps[c] EXCEPT !.mode = "Impulse", !.deceleration = d]
        ELSE InFlight(f).comps[c]]]

InitDecay ==
    \E f \in ModeFlights, d \in {x \in Decelerations : x > 0} :
        /\ ships = Coasting(f, d).ships
        /\ comps = Coasting(f, d).comps
        /\ calls = <<>>
        /\ hist = <<>>
        /\ core = NewCore(NoFile)

NextDecay ==
    \E c \in Movements, dt \in {t \in DeltaTimes : t > 0} :
        Within(MaxDecayTicks) /\ ComponentUpdateCall(c, dt)

SpecDecay == InitDecay /\ [][NextDecay]_vars

----------------------------------------------------------------------------
(* Steady state: a ship at rest with an attached MovementComponent in
   Thruster mode is ticked with a constant thrust and a fixed dt > 0 *)

\* the number of ticks explored
MaxSteadyTicks == 12

SteadyThrusts == (Thrusts \ {Zero}) \cup {Vec(150 * Unit, 30 * Unit)}

\* acceleration > deceleration >= 0
SteadyRates == {r \in [acceleration : {50 * Unit, 80 * Unit}, deceleration : {0, 30 * Unit}] :
                   r.acceleration > r.deceleration}

AtRest == CHOOSE f \in ModeFlights : f.velocity = Zero

\* the flight at rest after setThrust, setAcceleration and setDeceleration
Thrusting(thrust, r) ==
    [InFlight(AtRest) EXCEPT !.comps = [c \in Comps |->
        IF c \in Movements
        THEN [InFlight(AtRest).comps[c] EXCEPT !.thrust = thrust,
                                               !.acceleration = r.acceleration,
                                               !.deceleration = r.deceleration]
        ELSE InFlight(AtRest).comps[c]]]

InitSteady ==
    \E thrust \in SteadyThrusts, r \in SteadyRates :
        /\ ships = Thrusting(thrust, r).ships
        /\ comps = Thrusting(thrust, r).comps
        /\ calls = <<>>
        /\ hist = <<>>
        /\ core = NewCore(NoFile)

\* every tick has the dt of the first one
NextSteady ==
    \E c \in Movements, dt \in {t \in DeltaTimes : t > 0} :
        /\ Within(MaxSteadyTicks)
        /\ hist # <<>> => dt = hist[1].num
        /\ ComponentUpdateCall(c, dt)

SpecSteady == InitSteady /\ [][NextSteady]_vars

----------------------------------------------------------------------------
(* Engine lifecycle: the engine is initialized and shut down, and events are
   emitted in between *)

\* the number of calls explored
MaxEngineSteps == 3

\* the operation on the core services returned e
Answer(e, entry) ==
    /\ core' = e.k
    /\ calls' = e.calls
    /\ hist' = Append(hist, entry)
    /\ UNCHANGED <<ships, comps>>

Request(op, subject, detail) == [op |-> op, subject |-> subject, detail |-> detail]

EngineInitializeCall(env) ==
    Answer(Engine_initialize(Services(core), env), Request("Engine::initialize", "", ""))

EngineShutdownCall(env) ==
    Answer(Engine_shutdown(Services(core), env), Request("Engine::shutdown", "", ""))

EmitCall(type) ==
    Answer(emit(Services(core), type), Request("emit", type, ""))

InitEngine ==
    \E file \in ConfigFiles :
        /\ ships = [s \in Ships |-> NewShip]
        /\ comps = [c \in Comps |-> NewComponent(c)]
        /\ calls = <<>>
        /\ hist = <<>>
        /\ core = NewCore(file)

NextEngine ==
    \/ \E env \in Environments : Within(MaxEngineSteps) /\ EngineInitializeCall(env)
    \/ \E env \in {Working, [Working EXCEPT !.writable = FALSE]} :
          Within(MaxEngineSteps) /\ EngineShutdownCall(env)
    \/ \E type \in EventTypes : Within(MaxEngineSteps) /\ EmitCall(type)

SpecEngine == InitEngine /\ [][NextEngine]_vars

----------------------------------------------------------------------------
(* Event bus: callbacks are subscribed, events are emitted, the
   subscriptions are cleared *)

\* the number of calls explored
MaxEventSteps == 4

SubscribeCall(type, callback) ==
    Answer(subscribe(Services(core), type, callback), Request("subscribe", type, callback))

ClearCall ==
    Answer(EventManager_clear(Services(core)), Request("clear", "", ""))

NextEvents ==
    \/ \E type \in EventTypes, callback \in Callbacks \ EngineCallbacks :
          Within(MaxEventSteps) /\ SubscribeCall(type, callback)
    \/ \E type \in EventTypes : Within(MaxEventSteps) /\ EmitCall(type)
    \/ Within(MaxEventSteps) /\ ClearCall

SpecEvents == Init /\ [][NextEvents]_vars

----------------------------------------------------------------------------
(* Resource cache: resources are loaded by path and the cache is emptied *)

\* the number of calls explored
MaxResourceSteps == 4

\* what load_resource returned
Returned(e) == e.calls[Len(e.calls)].result

LoadResourceCall(type, path, loads) ==
    LET e == load_resource(Services(core), type, path, loads)
    IN  Answer(e, Request("load_resource", path,
                          [type |-> type, loads |-> loads, result |-> Returned(e)]))

UnloadAllCall ==
    Answer(unload_all(Services(core)), Request("unload_all", "", ""))

NextResources ==
    \/ \E type \in ResourceTypes, path \in Paths, loads \in BOOLEAN :
          Within(MaxResourceSteps) /\ LoadResourceCall(type, path, loads)
    \/ Within(MaxResourceSteps) /\ UnloadAllCall

SpecResources == Init /\ [][NextResources]_vars

----------------------------------------------------------------------------
(* Logger lifecycle: the logger is initialized, written to and shut down *)

\* the number of calls explored
MaxLoggerSteps == 4

LogFiles == {"void_contingency.log", "other.log"}

LogLevels == {"DEBUG", "INFO", "WARNING", "ERROR", "FATAL"}

Messages == {"Initializing game...", "Starting game loop"}

LoggerInitializeCall(log_file, env) ==
    Answer(Logger_initialize(Services(core), log_file, env),
           Request("Logger::initialize", log_file, env.logFile))

LoggerLogCall(level, message) ==
    Answer(Logger_log(Services(core), level, message), Request("Logger::log", level, message))

LoggerShutdownCall ==
    Answer(Logger_shutdown(Services(core)), Request("Logger::shutdown", "", ""))

NextLogger ==
    \/ \E log_file \in LogFiles, env \in {Working, [Working EXCEPT !.logFile = FALSE]} :
          Within(MaxLoggerSteps) /\ LoggerInitializeCall(log_file, env)
    \/ \E level \in {"INFO", "ERROR"}, message \in Messages :
          Within(MaxLoggerSteps) /\ LoggerLogCall(level, message)
    \/ Within(MaxLoggerSteps) /\ LoggerShutdownCall

SpecLogger == Init /\ [][NextLogger]_vars

----------------------------------------------------------------------------
(* Key states: the input system is initialized, polls the pending events
   and is shut down *)

\* the number of calls explored
MaxKeySteps == 2

\* the events pending at a call of update(): at most two
EventQueues ==
    {<<>>} \cup {<<a>> : a \in SdlEvents} \cup {<<a, b>> : a \in SdlEvents, b \in SdlEvents}

InputInitializeCall(env) ==
    Answer(InputSystem_initialize(Services(core), env),
           Request("InputSystem::initialize", "", ""))

InputShutdownCall ==
    Answer(InputSystem_shutdown(Services(core)), Request("InputSystem::shutdown", "", ""))

InputUpdateCall(events) ==
    Answer(InputSystem_update(Services(core), events),
           Request("InputSystem::update", "", events))

NextKeys ==
    \/ \E env \in {Working, [Working EXCEPT !.sdl = FALSE]} :
          Within(MaxKeySteps) /\ InputInitializeCall(env)
    \/ Within(MaxKeySteps) /\ InputShutdownCall
    \/ \E events \in EventQueues : Within(MaxKeySteps) /\ InputUpdateCall(events)

SpecKeys == Init /\ [][NextKeys]_vars

----------------------------------------------------------------------------
(* Key callbacks: callbacks are registered and the pending events polled *)

\* the number of calls explored
MaxCallbackSteps == 3

\* the events pending at a call of update(): none, one, or a key-down and
\* the key-up of the same key
ShortQueues ==
    {q \in EventQueues : Len(q) <= 1}
       \cup {<<[type |-> "SDL_KEYDOWN", key |-> key], [type |-> "SDL_KEYUP", key |-> key]>> :
                key \in Keys}

RegisterKeyCallbackCall(key, action, callback) ==
    Answer(register_key_callback(Services(core), key, action, callback),
           Request("register_key_callback", key, [action |-> action, callback |-> callback]))

NextCallbacks ==
    \/ \E key \in Keys, action \in KeyActions, callback \in KeyCallbacks \ {GameCallback} :
          Within(MaxCallbackSteps) /\ RegisterKeyCallbackCall(key, action, callback)
    \/ \E events \in ShortQueues : Within(MaxCallbackSteps) /\ InputUpdateCall(events)

SpecCallbacks == Init /\ [][NextCallbacks]_vars

----------------------------------------------------------------------------
(* Game loop: the game is initialized, run and shut down; run() polls the
   pending events once per iteration *)

\* the number of steps explored
MaxGameSteps == 5

GameInitializeCall ==
    /\ ~core.in_run
    /\ Answer(Game_initialize(Services(core)), Request("Game::initialize", "", ""))

GameShutdownCall ==
    /\ ~core.in_run
    /\ Answer(Game_shutdown(Services(core)), Request("Game::shutdown", "", ""))

GameRunCall ==
    /\ ~core.in_run
    /\ Answer(Game_run(Services(core)), Request("Game::run", "", ""))

\* while (is_running_): one more iteration
GameIteration(events) ==
    /\ core.in_run
    /\ core.is_running
    /\ Answer(Game_iteration(Services(core), events), Request("iteration", "", events))

\* while (is_running_): the loop ends
GameReturn ==
    /\ core.in_run
    /\ ~core.is_running
    /\ Answer(Game_return(Services(core)), Request("return", "", ""))

NextGame ==
    \/ Within(MaxGameSteps) /\ GameInitializeCall
    \/ Within(MaxGameSteps) /\ GameShutdownCall
    \/ Within(MaxGameSteps) /\ GameRunCall
    \/ \E events \in ShortQueues : Within(MaxGameSteps) /\ GameIteration(events)
    \/ Within(MaxGameSteps) /\ GameReturn

SpecGame == Init /\ [][NextGame]_vars

----------------------------------------------------------------------------
(* Observations used by the properties *)

\* the call that led to the next state
LastCall == hist'[Len(hist')]

\* some call is being made in this step
Calling == hist' # hist

\* the damage / heal calls made on ship s so far, in order
HealthCalls(s) == SelectSeq(hist, LAMBDA e : e.ship = s /\ e.op \in {"damage", "heal"})

----------------------------------------------------------------------------
(* Ship health *)

\* C2: after any sequence of damage and heal calls, with any amounts, the
\* health of every ship is within [0, maxHealth].
C2_HealthWithinBounds ==
    \A s \in Ships : 0 <= ships[s].health /\ ships[s].health <= ships[s].maxHealth

\* C7: heal(x) on a ship whose health equals maxHealth leaves the health
\* unchanged and damage(x) on a ship whose health is 0 leaves it at 0, for
\* every amount x.
C7_IdempotentSaturating ==
    [][Calling =>
        /\ (LastCall.op = "heal" /\ ships[LastCall.ship].health = ships[LastCall.ship].maxHealth)
              => ships'[LastCall.ship].health = ships[LastCall.ship].health
        /\ (LastCall.op = "damage" /\ ships[LastCall.ship].health = 0)
              => ships'[LastCall.ship].health = 0]_vars

\* the scenario of ShipTest.DamageAndHeal and the health it expects after
\* each call
HealthScript ==
    << [op |-> "damage", num |-> 30 * Unit], [op |-> "heal", num |-> 20 * Unit],
       [op |-> "damage", num |-> 100 * Unit], [op |-> "heal", num |-> 100 * Unit] >>

HealthExpected == << 70 * Unit, 90 * Unit, 0, 100 * Unit >>

FollowsScript(s) ==
    /\ Len(HealthCalls(s)) <= Len(HealthScript)
    /\ \A i \in 1..Len(HealthCalls(s)) :
          /\ HealthCalls(s)[i].op = HealthScript[i].op
          /\ HealthCalls(s)[i].num = HealthScript[i].num

\* C8: a new ship has health 100 and maxHealth 100; damage(a) sets health to
\* max(0, health - a) and heal(a) to min(maxHealth, health + a); the sequence
\* damage(30), heal(20), damage(100), heal(100) gives 70, 90, 0, 100.
C8_DamageAndHeal ==
    /\ \A s \in Ships : ships[s].health = 100 * Unit /\ ships[s].maxHealth = 100 * Unit
    /\ [][Calling =>
            LET s == LastCall.ship
                a == LastCall.num
            IN  /\ LastCall.op = "damage" =>
                      ships'[s].health = (IF ships[s].health - a < 0 THEN 0
                                          ELSE ships[s].health - a)
                /\ LastCall.op = "heal" =>
                      ships'[s].health = (IF ships[s].health + a > ships[s].maxHealth
                                          THEN ships[s].maxHealth
                                          ELSE ships[s].health + a)]_vars
    /\ [](\A s \in Ships :
            (FollowsScript(s) /\ HealthCalls(s) # <<>>)
               => ships[s].health = HealthExpected[Len(HealthCalls(s))])

\* the whole scenario was run on some ship, ending at full health
C8_Witness ==
    \E s \in Ships :
        /\ FollowsScript(s)
        /\ Len(HealthCalls(s)) = Len(HealthScript)
        /\ ships[s].health = 100 * Unit

----------------------------------------------------------------------------
(* Movement: speed limit and deceleration *)

\* the call that led to this state
ThisCall == hist[Len(hist)]

\* C1: after every update(dt) of a MovementComponent attached to a ship, in
\* any mode, the speed of the ship is at most the maxSpeed of the component
\* (stated for the intended inputs only: deltaTime >= 0 and maxSpeed >= 0).
C1_SpeedLimit ==
    (hist # <<>> /\ ThisCall.op = "update" /\ ThisCall.comp \in Movements
       /\ comps[ThisCall.comp].ship # NoShip
       /\ ThisCall.num >= 0 /\ comps[ThisCall.comp].maxSpeed >= 0)
      => Length(ships[comps[ThisCall.comp].ship].velocity)
            <= comps[ThisCall.comp].maxSpeed

\* b does not point against a: no coordinate changed its sign and the dot
\* product is positive
SameDirection(a, b) ==
    /\ a.x * b.x >= 0
    /\ a.y * b.y >= 0
    /\ a.x * b.x + a.y * b.y > 0

\* C5: applyDeceleration never reverses the direction: a velocity that is
\* non-zero before the call is zero or points in the same direction after it.
C5_NoReversal ==
    \A i \in DOMAIN calls :
        (calls[i].call = "applyDeceleration" /\ calls[i].before # Zero)
          => (calls[i].after = Zero \/ SameDirection(calls[i].before, calls[i].after))

\* a deceleration slowed a moving ship down without stopping it
C5_Witness ==
    \E i \in DOMAIN calls :
        /\ calls[i].call = "applyDeceleration"
        /\ calls[i].before # Zero
        /\ calls[i].after # Zero
        /\ calls[i].after # calls[i].before
        /\ comps[calls[i].comp].deceleration > 0

----------------------------------------------------------------------------
(* Ship::update *)

\* C3: Ship::update(dt) sets position to position + velocity * dt with the
\* velocity the ship had before the tick, whatever the components do to the
\* velocity during the tick.
C3_PositionFromPreTickVelocity ==
    [][(Calling /\ LastCall.op = "Ship::update") =>
          LET s == LastCall.ship
              dt == LastCall.num
              p == ships[s].transform.position
              v == ships[s].velocity
          IN  ships'[s].transform.position
                 = Vec(p.x + FMul(v.x, dt), p.y + FMul(v.y, dt))]_vars

\* a tick with dt > 0 moved a ship whose velocity a component changed in
\* that same tick
C3_Witness ==
    /\ hist # <<>>
    /\ ThisCall.op = "Ship::update"
    /\ ThisCall.num > 0
    /\ ships[ThisCall.ship].transform.position # Zero
    /\ \E i \in DOMAIN calls :
          /\ calls[i].call = "applyDeceleration"
          /\ comps[calls[i].comp].ship = ThisCall.ship
          /\ calls[i].before # calls[i].after

\* the component updates a Ship::update made, in call order
UpdatesOf(trace) == SelectSeq(trace, LAMBDA e : e.call = "update")

\* C4: Ship::update(dt) calls update(dt) exactly once on every component of
\* the ship, in the order in which addComponent added them, and only after
\* the position was integrated.
C4_ComponentsInInsertionOrder ==
    [][Calling =>
          LET s == LastCall.ship
          IN  /\ LastCall.op = "addComponent" =>
                    ships'[s].components = Append(ships[s].components, LastCall.comp)
              /\ \A t \in Ships :
                    (LastCall.op # "addComponent" \/ t # s) =>
                        ships'[t].components = ships[t].components
              /\ LastCall.op = "Ship::update" =>
                    /\ calls' # <<>>
                    /\ calls'[1] = [call |-> "integrate", ship |-> s, dt |-> LastCall.num]
                    /\ \A i \in 2..Len(calls') : calls'[i].call # "integrate"
                    /\ Len(UpdatesOf(calls')) = Len(ships[s].components)
                    /\ \A i \in DOMAIN ships[s].components :
                          UpdatesOf(calls')[i] =
                             [call |-> "update", comp |-> ships[s].components[i],
                              dt |-> LastCall.num]]_vars

\* a ship updated its components, the last of which was added by addComponent
\* just before
C4_Witness ==
    /\ Len(hist) = 2
    /\ hist[1].op = "addComponent"
    /\ hist[2].op = "Ship::update"
    /\ hist[2].ship = hist[1].ship
    /\ Len(ships[hist[1].ship].components) >= 2
    /\ Len(UpdatesOf(calls)) = Len(ships[hist[1].ship].components)

----------------------------------------------------------------------------
(* Components without a ship *)

----------------------------------------------------------------------------
(* EngineComponent *)

\* C9: update(dt) of an attached EngineComponent adds forward * (thrust *
\* efficiency) * dt to the velocity of its ship and changes nothing else;
\* thrust 50, efficiency 0.8, forward (1, 0), dt 1 and velocity (0, 0) give
\* the velocity (40, 0).
C9_EngineUpdate ==
    [][(Calling /\ LastCall.op = "update" /\ LastCall.comp \in Engines
          /\ comps[LastCall.comp].ship # NoShip) =>
          LET e == comps[LastCall.comp]
              s == e.ship
              dt == LastCall.num
              forward == Vec(CosDeg(ships[s].transform.rotation),
                             SinDeg(ships[s].transform.rotation))
              force == FMul(e.thrust, e.efficiency)
              v == ships[s].velocity
          IN  /\ ships' = [ships EXCEPT ![s].velocity =
                              Vec(v.x + FMul(FMul(forward.x, force), dt),
                                  v.y + FMul(FMul(forward.y, force), dt))]
              /\ comps' = comps
              /\ (e.thrust = 50 * Unit /\ e.efficiency * 10 = 8 * Unit
                    /\ forward = Vec(Unit, 0) /\ dt = Unit /\ v = Zero)
                    => ships'[s].velocity = Vec(40 * Unit, 0)]_vars

\* the scenario: the first call is update(1.0) of an engine with thrust 50 on a
\* ship at rest facing (1, 0), which now moves at (40, 0)
C9_Witness ==
    /\ Len(hist) = 1
    /\ ThisCall.op = "update"
    /\ ThisCall.comp \in Engines
    /\ ThisCall.num = Unit
    /\ comps[ThisCall.comp].ship # NoShip
    /\ comps[ThisCall.comp].thrust = 50 * Unit
    /\ ships[comps[ThisCall.comp].ship].transform.rotation = 0
    /\ ships[comps[ThisCall.comp].ship].velocity = Vec(40 * Unit, 0)

\* C10: after any sequence of EngineComponent::setThrust(t) and update(dt)
\* calls the thrust of every engine is within [0, maxThrust]; setThrust
\* stores t clamped into that range.
C10_ThrustWithinBounds ==
    /\ [](\A c \in Engines : 0 <= comps[c].thrust /\ comps[c].thrust <= comps[c].maxThrust)
    /\ [][(Calling /\ LastCall.op = "Engine::setThrust") =>
             LET t == LastCall.num
                 e == comps[LastCall.comp]
             IN  comps'[LastCall.comp].thrust =
                    (IF t < 0 THEN 0 ELSE IF t > e.maxThrust THEN e.maxThrust ELSE t)]_vars

\* setThrust(150) stored maxThrust = 100, and an update followed
C10_Witness ==
    /\ Len(hist) = 2
    /\ hist[1].op = "Engine::setThrust"
    /\ hist[1].num = 150 * Unit
    /\ hist[2].op \in {"update", "Ship::update"}
    /\ comps[hist[1].comp].thrust = 100 * Unit

----------------------------------------------------------------------------
(* Movement modes *)

\* the internal calls of the last operation from the i-th on
CallsFrom(i) == SubSeq(calls, i, Len(calls))

\* the last call was update(dt) on the attached movement component c
UpdatedAttached(c) ==
    /\ hist # <<>>
    /\ ThisCall.op = "update"
    /\ ThisCall.comp = c
    /\ c \in Movements
    /\ comps[c].ship # NoShip

\* the velocity the ship of the movement component had before the update
\* that led to this state
VelocityBefore == calls[2].before

\* C11: a ship at velocity (0,0) with an attached MovementComponent in
\* Thruster mode, thrust (1,0), acceleration 50, default deceleration and
\* maxSpeed: after one update with dt = 1 the velocity has x > 0 and y
\* within 0.001 of 0.
C11_ThrusterScenario ==
    \A c \in Movements :
        (UpdatedAttached(c) /\ ThisCall.num = Unit
           /\ comps[c].mode = "Thruster" /\ comps[c].thrust = Vec(Unit, 0)
           /\ comps[c].acceleration = 50 * Unit
           /\ comps[c].deceleration = 30 * Unit
           /\ comps[c].maxSpeed = 100 * Unit
           /\ VelocityBefore = Zero)
          => /\ ships[comps[c].ship].velocity.x > 0
             /\ Abs(ships[comps[c].ship].velocity.y) * 1000 <= Unit

\* the scenario was run: the ship now moves at (20, 0), the acceleration 50
\* less the deceleration 30
C11_Witness ==
    \E c \in Movements :
        /\ UpdatedAttached(c) /\ ThisCall.num = Unit
        /\ comps[c].mode = "Thruster" /\ comps[c].thrust = Vec(Unit, 0)
        /\ comps[c].acceleration = 50 * Unit
        /\ comps[c].deceleration = 30 * Unit
        /\ comps[c].maxSpeed = 100 * Unit
        /\ VelocityBefore = Zero
        /\ ships[comps[c].ship].velocity = Vec(20 * Unit, 0)

----------------------------------------------------------------------------
(* The unit tests of the components *)

\* C12: on a new Ship and a new MovementComponent on which only
\* setMovementMode(Thruster), setThrust((1,0)) and update(1.0) are called
\* (MovementComponentTest.BasicMovement), the velocity of the ship afterwards
\* has x > 0 and y within 0.001 of 0.
C12_BasicMovementTest ==
    \A c \in Movements :
        (/\ hist = << Call("setMovementMode", 0, c, 0, Zero),
                      Call("Movement::setThrust", 0, c, 0, Vec(Unit, 0)),
                      Call("update", 0, c, Unit, Zero) >>
         /\ comps[c].mode = "Thruster")
          => \E s \in Ships : /\ ships[s].velocity.x > 0
                              /\ Abs(ships[s].velocity.y) * 1000 <= Unit

\* C13: on a new Ship and a new EngineComponent on which only setThrust(50)
\* and update(1.0) are called (EngineComponentTest.BasicFunctionality),
\* getThrust() returns 50 and the speed of the ship afterwards is greater
\* than 0.
C13_BasicFunctionalityTest ==
    \A c \in Engines :
        (hist = << Call("Engine::setThrust", 0, c, 50 * Unit, Zero),
                   Call("update", 0, c, Unit, Zero) >>)
          => /\ comps[c].thrust = 50 * Unit
             /\ \E s \in Ships : Length(ships[s].velocity) > 0

----------------------------------------------------------------------------
(* Ship::getComponent *)

\* C14: getComponent<T>() returns the earliest-added component of class T of
\* the ship, or none when the ship owns no component of class T; it never
\* returns a component of another class and does not change the component
\* sequence.
C14_GetComponentFirstMatch ==
    /\ [](\A k \in DOMAIN calls :
            calls[k].call = "getComponent" =>
               LET r == calls[k].result
                   T == calls[k].class
                   components == ships[calls[k].ship].components
               IN  IF r = NoComponent
                   THEN \A i \in DOMAIN components : comps[components[i]].type # T
                   ELSE /\ comps[r].type = T
                        /\ \E i \in DOMAIN components :
                              /\ components[i] = r
                              /\ \A j \in 1..(i - 1) : comps[components[j]].type # T)
    /\ [][(Calling /\ LastCall.op = "getComponent") =>
             (ships' = ships /\ comps' = comps)]_vars

\* getComponent<EngineComponent>() on a ship that owns the movement
\* component and then both engines returned the engine added first
C14_Witness ==
    \E k \in DOMAIN calls :
        /\ calls[k].call = "getComponent"
        /\ calls[k].class = "Engine"
        /\ Len(ships[calls[k].ship].components) = 3
        /\ comps[ships[calls[k].ship].components[1]].type = "Movement"
        /\ calls[k].result = ships[calls[k].ship].components[2]

----------------------------------------------------------------------------
(* Several ships *)

\* C15: ships share no mutable state: after any sequence of addComponent,
\* setShip, setter and update calls, Ship::update on one ship leaves the
\* position, velocity, rotation and health of every other ship unchanged.
C15_ShipsShareNoState ==
    [][(Calling /\ LastCall.op = "Ship::update") =>
          \A t \in Ships \ {LastCall.ship} :
              /\ ships'[t].transform.position = ships[t].transform.position
              /\ ships'[t].velocity = ships[t].velocity
              /\ ships'[t].transform.rotation = ships[t].transform.rotation
              /\ ships'[t].health = ships[t].health]_vars

----------------------------------------------------------------------------
(* Order of the components *)

\* ship s holds exactly an engine with positive thrust and a movement
\* component, both attached to it
EngineAndMovement(s) ==
    /\ Len(ships[s].components) = 2
    /\ \E i, j \in 1..2 :
          /\ ships[s].components[i] \in Engines
          /\ ships[s].components[j] \in Movements
          /\ comps[ships[s].components[i]].ship = s
          /\ comps[ships[s].components[j]].ship = s
          /\ comps[ships[s].components[i]].thrust > 0

\* the same objects, the two components of ship s added in the other order
Swapped(w, s) ==
    [w EXCEPT !.ships[s].components =
        <<w.ships[s].components[2], w.ships[s].components[1]>>]

\* the movement component of ship s
MovementOf(s) ==
    comps[CHOOSE c \in Movements : \E i \in DOMAIN ships[s].components :
                                      ships[s].components[i] = c]

\* C16: on a ship holding an attached engine with positive thrust and an
\* attached movement component the velocity after Ship::update(dt) depends
\* on the insertion order: from rest, with a positive deceleration, no
\* movement thrust and dt > 0, Engine-before-Movement and
\* Movement-before-Engine give different velocities.
C16_OrderMatters ==
    \A s \in Ships :
        (/\ EngineAndMovement(s)
         /\ ships[s].velocity = Zero
         /\ MovementOf(s).thrust = Zero
         /\ MovementOf(s).deceleration > 0)
          => \A dt \in DeltaTimes :
                LET inOrder == Ship_update(Cur, s, dt)
                    swapped == Ship_update(Swapped(Cur, s), s, dt)
                IN  (dt > 0 /\ inOrder.ok /\ swapped.ok)
                       => inOrder.ships[s].velocity # swapped.ships[s].velocity

\* Ship::update(1.0) ran the engine before the movement component on a ship
\* that was at rest: the engine's 40 were decelerated to (10, 0), where the
\* other order gives (40, 0)
C16_Witness ==
    /\ hist # <<>>
    /\ ThisCall.op = "Ship::update"
    /\ ThisCall.num = Unit
    /\ EngineAndMovement(ThisCall.ship)
    /\ ships[ThisCall.ship].components[1] \in Engines
    /\ \E k \in DOMAIN calls :
          /\ calls[k].call = "applyDeceleration"
          /\ calls[k].before = Vec(40 * Unit, 0)
          /\ calls[k].after = Vec(10 * Unit, 0)
    /\ ships[ThisCall.ship].velocity = Vec(10 * Unit, 0)
    /\ Ship_update(Swapped([Cur EXCEPT !.ships[ThisCall.ship].velocity = Zero],
                            ThisCall.ship),
                    ThisCall.ship, Unit).ships[ThisCall.ship].velocity
          = Vec(40 * Unit, 0)

----------------------------------------------------------------------------
(* No speed cap in the ship *)

\* every component of ship s is an engine attached to s
EnginesOnly(s) ==
    \A i \in DOMAIN ships[s].components :
        /\ ships[s].components[i] \in Engines
        /\ comps[ships[s].components[i]].ship = s

\* C17: the ship enforces no speed cap: setVelocity stores its argument, and
\* Ship::update of a ship with one attached engine and no movement component
\* adds the engine's forward * (thrust * efficiency) * dt to the velocity
\* unclamped, so that with positive thrust and dt the speed of a ship moving
\* forward grows in every tick, beyond any fixed maxSpeed.
C17_NoSpeedCapInShip ==
    [][Calling =>
          LET s == LastCall.ship
          IN  /\ LastCall.op = "setVelocity" => ships'[s].velocity = LastCall.vec
              /\ (LastCall.op = "Ship::update" /\ EnginesOnly(s)
                    /\ Len(ships[s].components) = 1) =>
                    LET e == comps[ships[s].components[1]]
                        dt == LastCall.num
                        v == ships[s].velocity
                        forward == Vec(CosDeg(ships[s].transform.rotation),
                                       SinDeg(ships[s].transform.rotation))
                        force == FMul(e.thrust, e.efficiency)
                    IN  /\ ships'[s].velocity =
                              Vec(v.x + FMul(FMul(forward.x, force), dt),
                                  v.y + FMul(FMul(forward.y, force), dt))
                        /\ (dt > 0 /\ e.thrust > 0 /\ forward = Vec(Unit, 0)
                              /\ v.x >= 0 /\ v.y = 0)
                              => Length(ships'[s].velocity) > Length(v)]_vars

\* three Ship::update calls and nothing else took a ship with an engine at
\* thrust 50 from rest beyond the speed 100, the default maxSpeed of a
\* movement component
C17_Witness ==
    /\ Len(hist) = 3
    /\ \A i \in 1..3 : hist[i].op = "Ship::update" /\ hist[i].ship = hist[1].ship
    /\ EnginesOnly(hist[1].ship)
    /\ ships[hist[1].ship].components # <<>>
    /\ Length(ships[hist[1].ship].velocity) > NewMovementComponent.maxSpeed

----------------------------------------------------------------------------
(* The laws of the movement modes, on plain velocities *)

\* velocity += normalize(thrust) * acceleration * dt when thrust is non-zero
\* (its squared length is positive)
AccelerationLaw(v, thrust, acceleration, dt) ==
    IF LengthSquared(thrust) > 0
    THEN LET len == FSqrt(LengthSquared(thrust))
             direction == IF len > 0 THEN Vec(FDiv(thrust.x, len), FDiv(thrust.y, len))
                                     ELSE thrust
         IN  Vec(v.x + FMul(FMul(direction.x, acceleration), dt),
                 v.y + FMul(FMul(direction.y, acceleration), dt))
    ELSE v

\* the speed is reduced by deceleration * dt, not below 0, the direction kept
DecelerationLaw(v, deceleration, dt) ==
    LET speed == FSqrt(LengthSquared(v))
        reduced == speed - FMul(deceleration, dt)
        newSpeed == IF reduced < 0 THEN 0 ELSE reduced
    IN  IF speed > 0
        THEN Vec(FMul(FDiv(v.x, speed), newSpeed), FMul(FDiv(v.y, speed), newSpeed))
        ELSE v

\* a speed above maxSpeed is set to maxSpeed, the direction kept
ClampLaw(v, maxSpeed) ==
    LET speed == FSqrt(LengthSquared(v))
        direction == IF speed > 0 THEN Vec(FDiv(v.x, speed), FDiv(v.y, speed)) ELSE v
    IN  IF speed > maxSpeed
        THEN Vec(FMul(direction.x, maxSpeed), FMul(direction.y, maxSpeed))
        ELSE v

\* the k-th internal call is update(dt) of an attached movement component
\* in the given mode
UpdateOfMode(k, mode) ==
    /\ calls[k].call = "update"
    /\ calls[k].comp \in Movements
    /\ comps[calls[k].comp].ship # NoShip
    /\ comps[calls[k].comp].mode = mode

\* the internal calls k+1 .. k+n are the last calls of the update that is
\* the k-th internal call, and leave the velocity v in its ship
EndsUpdate(k, n, v) ==
    IF k + n = Len(calls)
    THEN ships[comps[calls[k].comp].ship].velocity = v
    ELSE calls[k + n + 1].call = "update"

\* C18: in Thruster mode update(dt) of an attached MovementComponent applies
\* the acceleration law, then the deceleration law on the accelerated
\* velocity, then the speed clamp to maxSpeed, in this order.
C18_ThrusterOrder ==
    \A k \in DOMAIN calls :
        UpdateOfMode(k, "Thruster") =>
            LET m == comps[calls[k].comp]
                dt == calls[k].dt
            IN  /\ k + 3 <= Len(calls)
                /\ calls[k + 1].call = "applyAcceleration"
                /\ calls[k + 1].after =
                      AccelerationLaw(calls[k + 1].before, m.thrust, m.acceleration, dt)
                /\ calls[k + 2].call = "applyDeceleration"
                /\ calls[k + 2].before = calls[k + 1].after
                /\ calls[k + 2].after =
                      DecelerationLaw(calls[k + 2].before, m.deceleration, dt)
                /\ calls[k + 3].call = "clampVelocity"
                /\ calls[k + 3].before = calls[k + 2].after
                /\ calls[k + 3].after = ClampLaw(calls[k + 3].before, m.maxSpeed)
                /\ EndsUpdate(k, 3, calls[k + 3].after)

\* a Thruster update in which each of the three laws changed the velocity
C18_Witness ==
    \E k \in DOMAIN calls :
        /\ UpdateOfMode(k, "Thruster")
        /\ calls[k].dt > 0
        /\ calls[k + 1].after # calls[k + 1].before
        /\ calls[k + 2].after # calls[k + 2].before
        /\ calls[k + 3].after # calls[k + 3].before

\* the velocity update(dt) of the movement component c leaves in its ship
\* when the ship moves at v and the component is changed to m
UpdateGives(c, m, v, dt) ==
    LET s == comps[c].ship
        w == [Cur EXCEPT !.ships[s].velocity = v, !.comps[c] = m]
    IN  MovementComponent_update(w, c, dt).ships[s].velocity

\* C19: in Impulse mode thrust contributes nothing: update(dt) of an
\* attached MovementComponent applies the deceleration law and then the
\* speed clamp, and for the same velocity, dt, deceleration and maxSpeed it
\* yields this same velocity for every value of thrust.
C19_ImpulseIgnoresThrust ==
    \A k \in DOMAIN calls :
        UpdateOfMode(k, "Impulse") =>
            LET c == calls[k].comp
                m == comps[c]
                dt == calls[k].dt
            IN  /\ k + 2 <= Len(calls)
                /\ calls[k + 1].call = "applyDeceleration"
                /\ calls[k + 1].after =
                      DecelerationLaw(calls[k + 1].before, m.deceleration, dt)
                /\ calls[k + 2].call = "clampVelocity"
                /\ calls[k + 2].before = calls[k + 1].after
                /\ calls[k + 2].after = ClampLaw(calls[k + 2].before, m.maxSpeed)
                /\ EndsUpdate(k, 2, calls[k + 2].after)
                /\ \A t \in Thrusts :
                      UpdateGives(c, [m EXCEPT !.thrust = t], calls[k + 1].before, dt)
                         = calls[k + 2].after

\* an Impulse update with dt > 0 of a component that has a thrust and an
\* acceleration slowed its ship down
C19_Witness ==
    \E k \in DOMAIN calls :
        /\ UpdateOfMode(k, "Impulse")
        /\ calls[k].dt > 0
        /\ comps[calls[k].comp].thrust # Zero
        /\ comps[calls[k].comp].acceleration > 0
        /\ calls[k + 1].after # calls[k + 1].before
        /\ calls[k + 1].after # Zero

\* x * 0.5f
Half(x) == FMul(x, Unit \div 2)

\* C20: a Hybrid-mode update(dt) of an attached MovementComponent yields the
\* velocity of the acceleration law with dt / 2, then the deceleration law
\* with the full dt, then the speed clamp; this is the velocity a
\* Thruster-mode update(dt) of a component with half the acceleration
\* yields.
C20_HybridHalvesAcceleration ==
    \A k \in DOMAIN calls :
        UpdateOfMode(k, "Hybrid") =>
            LET c == calls[k].comp
                m == comps[c]
                dt == calls[k].dt
            IN  /\ k + 3 <= Len(calls)
                /\ calls[k + 1].call = "applyAcceleration"
                /\ calls[k + 1].after =
                      AccelerationLaw(calls[k + 1].before, m.thrust, m.acceleration,
                                      Half(dt))
                /\ calls[k + 2].call = "applyDeceleration"
                /\ calls[k + 2].before = calls[k + 1].after
                /\ calls[k + 2].after =
                      DecelerationLaw(calls[k + 2].before, m.deceleration, dt)
                /\ calls[k + 3].call = "clampVelocity"
                /\ calls[k + 3].before = calls[k + 2].after
                /\ calls[k + 3].after = ClampLaw(calls[k + 3].before, m.maxSpeed)
                /\ EndsUpdate(k, 3, calls[k + 3].after)
                /\ UpdateGives(c, [m EXCEPT !.mode = "Thruster",
                                            !.acceleration = Half(m.acceleration)],
                               calls[k + 1].before, dt)
                      = calls[k + 3].after

\* a Hybrid update with dt > 0 accelerated its ship, to a velocity other than
\* the one a Thruster update with the whole acceleration gives
C20_Witness ==
    \E k \in DOMAIN calls :
        /\ UpdateOfMode(k, "Hybrid")
        /\ calls[k].dt > 0
        /\ calls[k + 1].after # calls[k + 1].before
        /\ calls[k + 2].after # calls[k + 2].before
        /\ UpdateGives(calls[k].comp,
                       [comps[calls[k].comp] EXCEPT !.mode = "Thruster"],
                       calls[k + 1].before, calls[k].dt)
              # calls[k + 3].after

----------------------------------------------------------------------------
(* Mode dispatch, rotation and frame of MovementComponent::update *)

\* the velocity the mode of the movement component m makes of v in a tick
ModeLaw(m, v, dt) ==
    CASE m.mode = "Thruster" ->
            ClampLaw(DecelerationLaw(AccelerationLaw(v, m.thrust, m.acceleration, dt),
                                     m.deceleration, dt), m.maxSpeed)
      [] m.mode = "Impulse" ->
            ClampLaw(DecelerationLaw(v, m.deceleration, dt), m.maxSpeed)
      [] m.mode = "Hybrid" ->
            ClampLaw(DecelerationLaw(AccelerationLaw(v, m.thrust, m.acceleration,
                                                     Half(dt)),
                                     m.deceleration, dt), m.maxSpeed)

\* C21: the mode is re-evaluated on every tick: setMovementMode(m) changes
\* only the mode field, neither the velocity nor the rotation of any ship,
\* and every update(dt) of an attached component integrates according to
\* the mode set last.
C21_ModeTakesEffectNextTick ==
    [][Calling =>
          LET c == LastCall.comp
          IN  /\ LastCall.op = "setMovementMode" =>
                    /\ ships' = ships
                    /\ comps' = [comps EXCEPT ![c].mode = comps'[c].mode]
              /\ (LastCall.op = "update" /\ c \in Movements /\ comps[c].ship # NoShip) =>
                    ships'[comps[c].ship].velocity =
                       ModeLaw(comps[c], ships[comps[c].ship].velocity, LastCall.num)]_vars

\* setThrust, then setMovementMode(Impulse) on a Thruster component, then
\* update with dt > 0: the ship has the velocity of an Impulse tick, which is
\* not the one a Thruster tick gives
C21_Witness ==
    /\ Len(hist) = 3
    /\ hist[1].op = "Movement::setThrust"
    /\ hist[2].op = "setMovementMode"
    /\ hist[3].op = "update"
    /\ hist[3].num > 0
    /\ hist[3].comp = hist[2].comp
    /\ comps[hist[3].comp].mode = "Impulse"
    /\ comps[hist[3].comp].ship # NoShip
    /\ ships[comps[hist[3].comp].ship].velocity
          = ModeLaw(comps[hist[3].comp], VelocityBefore, hist[3].num)
    /\ ships[comps[hist[3].comp].ship].velocity
          # ModeLaw([comps[hist[3].comp] EXCEPT !.mode = "Thruster"],
                    VelocityBefore, hist[3].num)

\* C22: after every update(dt) of a MovementComponent attached to a ship, in
\* every mode, the rotation of the ship equals the rotation field of the
\* component: the value last given to MovementComponent::setRotation.
C22_RotationWrittenBack ==
    \A k \in DOMAIN calls :
        (calls[k].call = "update" /\ calls[k].comp \in Movements
           /\ comps[calls[k].comp].ship # NoShip)
          => ships[comps[calls[k].comp].ship].transform.rotation
                = comps[calls[k].comp].rotation

\* setMovementMode, setRotation(270) and update: the ship, which no flight
\* starts at 270 degrees, now has the rotation 270 in a mode other than
\* Thruster
C22_Witness ==
    /\ Len(hist) = 3
    /\ hist[1].op = "setMovementMode"
    /\ hist[2].op = "setRotation"
    /\ hist[2].num = 270 * Unit
    /\ hist[3].op = "update"
    /\ hist[3].comp = hist[2].comp
    /\ comps[hist[3].comp].mode # "Thruster"
    /\ comps[hist[3].comp].ship # NoShip
    /\ ships[comps[hist[3].comp].ship].transform.rotation = 270 * Unit

\* C23: MovementComponent::update(dt) changes only the velocity and the
\* rotation of its ship: every field of the component (mode, thrust,
\* rotation, angularVelocity, maxSpeed, the rates, the back-reference) and
\* every other component stay as they are, no angular helper runs, and the
\* position and health of every ship, and every other ship, are unchanged.
C23_UpdateFrame ==
    [][(Calling /\ LastCall.op = "update" /\ LastCall.comp \in Movements) =>
          /\ comps' = comps
          /\ \A k \in DOMAIN calls' :
                calls'[k].call \in {"update", "applyAcceleration", "applyDeceleration",
                                    "clampVelocity"}
          /\ \A t \in Ships :
                /\ ships'[t].transform.position = ships[t].transform.position
                /\ ships'[t].transform.scale = ships[t].transform.scale
                /\ ships'[t].health = ships[t].health
                /\ ships'[t].maxHealth = ships[t].maxHealth
                /\ ships'[t].components = ships[t].components
                /\ t # comps[LastCall.comp].ship => ships'[t] = ships[t]]_vars

\* an update with dt > 0 of an attached component with a non-zero angular
\* velocity changed the velocity and the rotation of its ship
C23_Witness ==
    /\ Len(hist) = 3
    /\ hist[3].op = "update"
    /\ hist[3].num > 0
    /\ comps[hist[3].comp].ship # NoShip
    /\ comps[hist[3].comp].angularVelocity = -400 * Unit
    /\ hist[2].op = "setRotation"
    /\ hist[2].num = 270 * Unit
    /\ ships[comps[hist[3].comp].ship].transform.rotation = 270 * Unit
    /\ ships[comps[hist[3].comp].ship].velocity # VelocityBefore

----------------------------------------------------------------------------
(* Angular helpers *)

\* C24: with dt >= 0 and non-negative rates applyAngularAcceleration and
\* applyAngularDeceleration never flip the sign of angularVelocity:
\* acceleration keeps the sign (a zero angular velocity stays zero) and does
\* not shrink the magnitude, deceleration keeps the sign or stops at exactly
\* 0 when the rate times dt reaches the magnitude; clampAngularVelocity
\* leaves angularVelocity within [-360, 360].
C24_AngularHelpers ==
    [][Calling =>
          LET c == LastCall.comp
              dt == LastCall.num
              before == comps[c].angularVelocity
              after == comps'[c].angularVelocity
          IN  /\ (LastCall.op = "applyAngularAcceleration" /\ dt >= 0
                    /\ comps[c].angularAcceleration >= 0) =>
                    /\ Sgn(after) = Sgn(before)
                    /\ Abs(after) >= Abs(before)
              /\ (LastCall.op = "applyAngularDeceleration" /\ dt >= 0
                    /\ comps[c].angularDeceleration >= 0) =>
                    /\ after = 0 \/ Sgn(after) = Sgn(before)
                    /\ Abs(after) <= Abs(before)
                    /\ (FMul(comps[c].angularDeceleration, dt) >= Abs(before)) => after = 0
              /\ LastCall.op = "clampAngularVelocity" =>
                    /\ -360 * Unit <= after /\ after <= 360 * Unit
                    /\ (-360 * Unit <= before /\ before <= 360 * Unit) => after = before]_vars

\* a deceleration whose rate times dt exceeded the remaining angular
\* velocity stopped the rotation at 0
C24_Witness ==
    /\ Len(hist) = 3
    /\ hist[1].op = "setAngularVelocity"
    /\ hist[1].num = 90 * Unit
    /\ hist[2].op = "applyAngularDeceleration"
    /\ hist[2].num = Unit \div 2
    /\ hist[3].op = "applyAngularDeceleration"
    /\ hist[3].num = Unit
    /\ comps[hist[3].comp].angularDeceleration = 90 * Unit
    /\ comps[hist[3].comp].angularVelocity = 0

----------------------------------------------------------------------------
(* Coasting and steady state *)

\* the greatest speed a flight starts with
TopSpeed ==
    CHOOSE top \in {Length(f.velocity) : f \in Flights} :
        \A f \in Flights : Length(f.velocity) <= top

\* the sum of deceleration * dt over the ticks i.. of the log that the
\* components attached to ship s were given
RECURSIVE Braked(_, _)
Braked(s, i) ==
    IF i > Len(hist) THEN 0
    ELSE (IF hist[i].op = "update" /\ comps[hist[i].comp].ship = s
          THEN FMul(comps[hist[i].comp].deceleration, hist[i].num) ELSE 0)
         + Braked(s, i + 1)

C26_ZeroThrustNoAcceleration ==
    /\ Normalized(Zero) = Zero
    /\ \A k \in DOMAIN calls :
          (calls[k].call = "applyAcceleration" /\ comps[calls[k].comp].thrust = Zero) =>
              calls[k].after = calls[k].before
    /\ \A k \in DOMAIN calls, mode \in MovementModes :
          (UpdateOfMode(k, mode) /\ comps[calls[k].comp].thrust = Zero
             /\ k + 1 \in DOMAIN calls /\ calls[k + 1].call # "update") =>
              LET m == comps[calls[k].comp]
                  n == IF mode = "Impulse" THEN 2 ELSE 3
              IN  /\ calls[k + n].call = "clampVelocity"
                  /\ calls[k + n].after
                        = ClampLaw(DecelerationLaw(calls[k + 1].before, m.deceleration,
                                                   calls[k].dt), m.maxSpeed)

\* a Hybrid-mode tick with dt > 0 and a positive acceleration on a moving
\* ship whose component has no thrust
C26_Witness ==
    /\ Len(hist) = 2
    /\ hist[1].op = "setMovementMode"
    /\ hist[2].op = "update"
    /\ hist[2].comp = hist[1].comp
    /\ hist[2].num > 0
    /\ comps[hist[2].comp].mode = "Hybrid"
    /\ comps[hist[2].comp].thrust = Zero
    /\ comps[hist[2].comp].acceleration > 0
    /\ comps[hist[2].comp].ship # NoShip
    /\ Len(calls) = 4
    /\ calls[2].call = "applyAcceleration"
    /\ calls[2].before # Zero
    /\ calls[2].after = calls[2].before

\* the speed of the ship the movement component c is attached to
getCurrentSpeed(c) == Length(ships[comps[c].ship].velocity)

\* the ticks after which a ship that gains (acceleration - deceleration) * dt
\* per tick has gained maxSpeed, and one more
SteadyAfter(c) ==
    LET m == comps[c]
        gain == FMul(m.acceleration - m.deceleration, hist[1].num)
    IN  (m.maxSpeed + gain - 1) \div gain + 1

\* C27: for a ship starting at rest with an attached Thruster-mode
\* MovementComponent, a constant non-zero thrust, acceleration >
\* deceleration >= 0 and a fixed dt > 0, the speed after each tick never
\* decreases, is exactly maxSpeed once the ticks have gained maxSpeed, and
\* equals maxSpeed after every later tick.
C27_SteadyState ==
    /\ [][\A c \in Movements : Length(ships'[comps[c].ship].velocity) >= getCurrentSpeed(c)]_vars
    /\ [](\A c \in Movements :
            (hist # <<>> /\ Len(hist) >= SteadyAfter(c)) =>
                getCurrentSpeed(c) = comps[c].maxSpeed)
    /\ [][\A c \in Movements :
            getCurrentSpeed(c) = comps[c].maxSpeed =>
                Length(ships'[comps[c].ship].velocity) = comps[c].maxSpeed]_vars

----------------------------------------------------------------------------
(* Engine lifecycle *)

\* the system a call sets up, "" for a call that sets up none
SetsUp(call) ==
    CASE call = "Logger::initialize" -> "Logger"
      [] call = "Config::load_from_file" -> "Config"
      [] call = "InputSystem::initialize" -> "InputSystem"
      [] call = "Renderer::initialize" -> "Renderer"
      [] call = "EventManager::subscribe" -> "EventManager"
      [] OTHER -> ""

\* the system a call shuts down, "" for a call that shuts down none
ShutsDown(call) ==
    CASE call = "Logger::shutdown" -> "Logger"
      [] call = "Config::save_to_file" -> "Config"
      [] call = "InputSystem::shutdown" -> "InputSystem"
      [] call = "Renderer::shutdown" -> "Renderer"
      [] call = "EventManager::clear" -> "EventManager"
      [] call = "ResourceManager::unload_all" -> "ResourceManager"
      [] OTHER -> ""

\* the systems named by the calls of a trace, each once, in the order of
\* their first call
RECURSIVE SystemsOf(_, _, _)
SystemsOf(trace, System(_), seen) ==
    IF trace = <<>> THEN <<>>
    ELSE LET system == System(Head(trace).call)
         IN  IF system = "" \/ system \in seen
             THEN SystemsOf(Tail(trace), System, seen)
             ELSE <<system>> \o SystemsOf(Tail(trace), System, seen \cup {system})

Reverse(q) == [i \in DOMAIN q |-> q[Len(q) + 1 - i]]

\* the order in which Engine::initialize sets the systems up
SetUpOrder == SystemsOf(Engine_initialize(Services(core), Working).calls, SetsUp, {})

\* C28: Engine::shutdown shuts the systems down in the reverse of the order
\* in which Engine::initialize set them up: logger, configuration, input
\* system, renderer, event subscriptions.
C28_ShutdownReversesInitialize ==
    /\ SetUpOrder = <<"Logger", "Config", "InputSystem", "Renderer", "EventManager">>
    /\ (hist # <<>> /\ hist[Len(hist)].op = "Engine::shutdown") =>
          SelectSeq(SystemsOf(calls, ShutsDown, {}),
                    LAMBDA system : \E i \in DOMAIN SetUpOrder : SetUpOrder[i] = system)
             = Reverse(SetUpOrder)

----------------------------------------------------------------------------
(* Event bus *)

\* the place of the last clear() in the log, 0 if there is none
LastClear ==
    LET clears == {i \in DOMAIN hist : hist[i].op = "clear"}
    IN  IF clears = {} THEN 0 ELSE CHOOSE i \in clears : \A j \in clears : j <= i

\* the callbacks subscribed for the event type since the last clear(), in
\* the order of their subscription
SubscribedFor(type) ==
    LET since == SelectSeq([i \in DOMAIN hist |-> [at |-> i, entry |-> hist[i]]],
                           LAMBDA h : /\ h.at > LastClear
                                      /\ h.entry.op = "subscribe"
                                      /\ h.entry.subject = type)
    IN  [i \in DOMAIN since |-> since[i].entry.detail]

\* the callbacks the last operation invoked, in order
Invoked == SelectSeq(calls, LAMBDA c : c.call = "callback")

\* C29: emit(e) invokes exactly the callbacks subscribed for the event type
\* of e since the last clear(), each once per subscription and in
\* subscription order, and no callback subscribed for another event type;
\* an emit that follows clear() invokes nothing.
C29_EmitInvokesSubscribers ==
    (hist # <<>> /\ ThisCall.op = "emit") =>
        /\ [i \in DOMAIN Invoked |-> Invoked[i].name] = SubscribedFor(ThisCall.subject)
        /\ \A i \in DOMAIN Invoked : Invoked[i].type = ThisCall.subject
        /\ (Len(hist) > 1 /\ hist[Len(hist) - 1].op = "clear") => calls = <<>>

\* b, then a for another event type, then a were subscribed, and the emit
\* invoked b and a
C29_Witness ==
    /\ Len(hist) = 4
    /\ ThisCall.op = "emit"
    /\ \A i \in 1..3 : hist[i].op = "subscribe"
    /\ hist[2].subject # ThisCall.subject
    /\ [i \in DOMAIN Invoked |-> Invoked[i].name] = <<"b", "a">>

----------------------------------------------------------------------------
(* Resource cache *)

\* the place of the last unload_all() in the log, 0 if there is none
LastUnload ==
    LET unloads == {i \in DOMAIN hist : hist[i].op = "unload_all"}
    IN  IF unloads = {} THEN 0 ELSE CHOOSE i \in unloads : \A j \in unloads : j <= i

\* the earlier calls of load_resource for the path of the last call that
\* returned an instance since the last unload_all()
LoadedBefore ==
    {i \in DOMAIN hist : /\ i > LastUnload
                         /\ i < Len(hist)
                         /\ hist[i].op = "load_resource"
                         /\ hist[i].subject = ThisCall.subject
                         /\ hist[i].detail.result # NoResource}

\* the instance the first of them returned
FirstLoaded == hist[CHOOSE i \in LoadedBefore : \A j \in LoadedBefore : i <= j].detail.result

\* the last operation called ResourceType::load
CalledLoad == \E k \in DOMAIN calls : calls[k].call = "Resource::load"

----------------------------------------------------------------------------
(* Logger lifecycle *)

\* the place of the last Logger::shutdown() in the log, 0 if there is none
LastShutdown ==
    LET downs == {i \in DOMAIN hist : hist[i].op = "Logger::shutdown"}
    IN  IF downs = {} THEN 0 ELSE CHOOSE i \in downs : \A j \in downs : j <= i

\* the calls of Logger::initialize since the last Logger::shutdown()
Initializations == {i \in DOMAIN hist : i > LastShutdown /\ hist[i].op = "Logger::initialize"}

\* the first of them: the call that opened the log file
Opening == hist[CHOOSE i \in Initializations : \A j \in Initializations : i <= j]

\* C31: log() writes an entry only while the logger is initialized (after
\* initialize and before shutdown), then one entry with its level and
\* message to the log file of the first initialize (if that file could be
\* opened), and is a no-op otherwise; initialize() on an initialized logger
\* and shutdown() on an uninitialized logger do nothing.
C31_LoggerLifecycle ==
    [][Calling =>
          /\ LastCall.op = "Logger::log" =>
                IF Initializations # {} /\ Opening.detail
                THEN core' = [core EXCEPT !.logger.written =
                                 Append(core.logger.written,
                                        [file |-> Opening.subject,
                                         level |-> LastCall.subject,
                                         message |-> LastCall.detail])]
                ELSE core' = core
          /\ (LastCall.op = "Logger::log" /\ core'.logger.written # core.logger.written) =>
                Initializations # {}
          /\ (LastCall.op = "Logger::initialize" /\ Initializations # {}) => core' = core
          /\ (LastCall.op = "Logger::shutdown" /\ Initializations = {}) => core' = core]_vars

\* the logger was initialized twice, with another file the second time,
\* then an entry was written to the first file, and after the shutdown a
\* log call wrote nothing
C31_Witness ==
    /\ Len(hist) = 4
    /\ hist[1].op = "Logger::initialize" /\ hist[1].detail
    /\ hist[2].op = "Logger::initialize" /\ hist[2].subject # hist[1].subject
    /\ hist[3].op = "Logger::log"
    /\ hist[4].op = "Logger::shutdown"
    /\ Len(core.logger.written) = 1
    /\ core.logger.written[1].file = hist[1].subject
    /\ ~core.logger.is_initialized

----------------------------------------------------------------------------
(* Key states and key callbacks *)

\* the events the calls i.. of the log handed to update(), in order
RECURSIVE Processed(_)
Processed(i) ==
    IF i > Len(hist) THEN <<>>
    ELSE (IF hist[i].op = "InputSystem::update" THEN hist[i].detail ELSE <<>>)
         \o Processed(i + 1)

\* the key events for the key among them
KeyEventsOf(key) ==
    SelectSeq(Processed(1), LAMBDA event : event.type # "SDL_QUIT" /\ event.key = key)

\* C32: is_key_pressed(k) is true exactly when the most recent key event
\* for k processed by update() was a key-down; it is false for a key with
\* no processed event and after a key-up.
C32_KeyPressedIsLastEvent ==
    \A key \in Keys :
        is_key_pressed(core, key)
           = (/\ KeyEventsOf(key) # <<>>
              /\ KeyEventsOf(key)[Len(KeyEventsOf(key))].type = "SDL_KEYDOWN")

\* Escape went down and up again, Space went down, in two calls of update()
C32_Witness ==
    /\ Len(hist) = 2
    /\ hist[1].op = "InputSystem::update" /\ hist[2].op = "InputSystem::update"
    /\ Len(KeyEventsOf("SDLK_ESCAPE")) = 2
    /\ KeyEventsOf("SDLK_ESCAPE")[1].type = "SDL_KEYDOWN"
    /\ KeyEventsOf("SDLK_ESCAPE")[2].type = "SDL_KEYUP"
    /\ Len(KeyEventsOf("SDLK_SPACE")) = 1
    /\ ~is_key_pressed(core, "SDLK_ESCAPE")
    /\ core.key_states["SDLK_ESCAPE"].known
    /\ is_key_pressed(core, "SDLK_SPACE")

\* the callbacks registered for the key with the action before the last
\* call, in the order of their registration
RegisteredFor(key, action) ==
    SelectSeq(SubSeq(hist, 1, Len(hist) - 1),
              LAMBDA h : /\ h.op = "register_key_callback"
                         /\ h.subject = key
                         /\ h.detail.action = action)

\* the action whose callbacks an event runs
ActionOf(event) == IF event.type = "SDL_KEYDOWN" THEN "PRESS" ELSE "RELEASE"

\* the callback runs that the events ask for, in order, each seeing the key
\* state its event set
RECURSIVE ExpectedRuns(_)
ExpectedRuns(events) ==
    IF events = <<>> THEN <<>>
    ELSE LET event == Head(events)
             registered == RegisteredFor(event.key, ActionOf(event))
         IN  (IF event.type = "SDL_QUIT" THEN <<>>
              ELSE [i \in DOMAIN registered |->
                       [call |-> "callback", name |-> registered[i].detail.callback,
                        key |-> event.key, action |-> ActionOf(event),
                        state |-> KeyState(event.type = "SDL_KEYDOWN")]])
             \o ExpectedRuns(Tail(events))

\* C33: for each key event processed by update() the callbacks registered
\* for that key run in registration order after the key state has been
\* updated: PRESS callbacks only on key-down, RELEASE callbacks only on
\* key-up, REPEAT callbacks never, and no callback of another key.
C33_KeyCallbacks ==
    (hist # <<>> /\ ThisCall.op = "InputSystem::update") =>
        /\ calls = ExpectedRuns(ThisCall.detail)
        /\ \A i \in DOMAIN calls : calls[i].action # "REPEAT"

\* b and then a were registered for the press of a key, and its key-down
\* ran b and then a, both seeing the key pressed
C33_Witness ==
    /\ Len(hist) = 3
    /\ hist[1].op = "register_key_callback" /\ hist[1].detail.callback = "b"
    /\ hist[2].op = "register_key_callback" /\ hist[2].detail.callback = "a"
    /\ hist[3].op = "InputSystem::update"
    /\ Len(calls) = 2
    /\ calls[1].name = "b" /\ calls[2].name = "a"
    /\ calls[1].state.pressed /\ calls[2].state.pressed

----------------------------------------------------------------------------
(* Game loop *)

\* the game was initialized and not shut down since, by the calls of h
GameInitialized(h) ==
    \E i \in DOMAIN h :
        /\ h[i].op = "Game::initialize"
        /\ \A j \in DOMAIN h : j > i => h[j].op # "Game::shutdown"

\* the steps of the game made by the last operation, in order
GameSteps(trace) ==
    LET steps == SelectSeq(trace, LAMBDA c :
                     c.call \in {"Game::process_input", "Game::update", "Game::render"})
    IN  [i \in DOMAIN steps |-> steps[i].call]

EscapeDown(events) ==
    \E i \in DOMAIN events : events[i] = [type |-> "SDL_KEYDOWN", key |-> "SDLK_ESCAPE"]

\* C34: run() makes an iteration only while is_running_ is true, and each
\* iteration performs process_input, update and render in that order; an
\* iteration that processes an Escape key-down leaves is_running_ false, and
\* with is_running_ false the only thing run() does is to return; iterations
\* happen only in a run of a game that was initialized and not shut down
\* since (a run without initialize(), or after shutdown(), makes none).
C34_GameLoop ==
    [][/\ (Calling /\ LastCall.op = "iteration") =>
            /\ core.is_running
            /\ GameInitialized(hist)
            /\ GameSteps(calls') = <<"Game::process_input", "Game::update", "Game::render">>
            /\ EscapeDown(LastCall.detail) => ~core'.is_running
       /\ (Calling /\ core.in_run /\ ~core.is_running) =>
            /\ LastCall.op = "return"
            /\ ~core'.in_run
       /\ (Calling /\ LastCall.op = "Game::run" /\ ~GameInitialized(hist)) =>
            ~core'.is_running]_vars

\* an initialized game ran one iteration without events, then one that
\* processed Escape down and up, and run() returned
C34_Witness ==
    /\ Len(hist) = 5
    /\ hist[1].op = "Game::initialize"
    /\ hist[2].op = "Game::run"
    /\ hist[3].op = "iteration" /\ hist[3].detail = <<>>
    /\ hist[4].op = "iteration"
    /\ hist[4].detail = <<[type |-> "SDL_KEYDOWN", key |-> "SDLK_ESCAPE"],
                          [type |-> "SDL_KEYUP", key |-> "SDLK_ESCAPE"]>>
    /\ hist[5].op = "return"
    /\ ~core.in_run /\ ~core.is_running

====
